---- MODULE Spec2Model ----
(***************************************************************************)
(* A model of src/src/App.js (scheduler-frontend): the date helpers, the   *)
(* timeline's drag/resize state machine, the CSV upload with its duplicate *)
(* check, the status poller of a scheduling run and the aggregation of a   *)
(* completed job into the project and store summaries.                     *)
(*                                                                         *)
(* Time.  A JavaScript Date is an instant; the model counts it in hours    *)
(* since 00:00 UTC of calendar day 0 and writes it <<t>>, with <<>> for    *)
(* null.  A host has a standard UTC offset tz (hours east of UTC) and,     *)
(* when dst is TRUE, moves its clocks one hour forward at 02:00 local      *)
(* standard time of calendar day DstStartDay.  parseDate reads a date      *)
(* string as LOCAL midnight, formatDate writes the UTC calendar day.       *)
(*                                                                         *)
(* Strings.  A value read as a date string is one of: Undefined (absent),  *)
(* EmptyStr (''), BadStr (text that is no date) or DateStr(n), the text    *)
(* YYYY-MM-DD of calendar day n.                                           *)
(***************************************************************************)
EXTENDS Integers, Sequences, FiniteSets, TLC

\* ------------------------------------------------------------------ bounds
\* Calendar days the inputs are drawn from: DayLo .. DayLo + DaySpan.
DayLo == 10
DaySpan == 2
\* The calendar day on which a host with dst = TRUE switches to summer time.
DstStartDay == 11
\* Pointer positions (clientX) range over 0 .. MaxPointerX.
MaxPointerX == 4
\* The pixel width the timeline is rendered at.
ChartPixelWidth == 206

\* At most MaxPendingReads file reads are outstanding, and the files selected may
\* bring the task store to at most MaxTasks rows.
MaxPendingReads == 2
MaxTasks == 4
\* At most MaxRuns scheduling runs are started, at most MaxInFlight status requests
\* of one run are unanswered, at most MaxLoadingTimeouts timeouts are pending.
MaxRuns == 2
MaxLiveRuns == 3    \* runs of the termination specification
MaxInFlight == 2
MaxLoadingTimeouts == 2
\* The project builder adds tasks while the task store stays within MaxBuiltTasks rows.
MaxBuiltTasks == 2
\* A CSV text has at most MaxCsvLen characters; an exported table has at most
\* MaxCsvRows rows of values of at most MaxFieldLen characters.
MaxCsvLen == 6
MaxFieldLen == 2
MaxCsvRows == 2

Days == DayLo .. (DayLo + DaySpan)
PointerXs == 0 .. MaxPointerX

\* ------------------------------------------------------- program constants
MarginLeft == 150
MarginRight == 20
HoursPerDay == 24

\* ------------------------------------------------------------------ values
Undefined == [k |-> "undefined", d |-> 0]
EmptyStr == [k |-> "empty", d |-> 0]
BadStr == [k |-> "bad", d |-> 0]
DateStr(n) == [k |-> "date", d |-> n]

\* A numeric text ('3', '-1') and what parseInt / parseFloat make of a string.
NumStr(n) == [k |-> "num", d |-> n]
NaN == << >>
parseNumber(s) == IF s.k = "num" THEN << s.d >> ELSE NaN

\* The values of the error banner.
NoError == [kind |-> "none"]

\* routingData before fetchRemoteData has answered: no rows.
NotFetched == [fetched |-> FALSE, rows |-> << >>]

Null == << >>
DateAt(t) == << t >>

\* JavaScript truthiness of a string-or-undefined value, and a || b.
Truthy(v) == v.k \in {"date", "bad"}
Or(a, b) == IF Truthy(a) THEN a ELSE b

\* Math.round(num / den) for den > 0: the nearest integer, halves upwards.
MathRound(num, den) == (2 * num + den) \div (2 * den)

Hosts ==
    { [tz |-> -5, dst |-> TRUE],
      [tz |-> 0, dst |-> FALSE],
      [tz |-> 2, dst |-> FALSE] }

Projects == {"X", "Y"}
Stores == {"Store-A", "Store-B"}

VARIABLES
    host,                \* the browser's time zone
    routingData,         \* the project templates' task rows fetched at mount
    summaryData,         \* [project: Seq(row), store: Seq(row)]
    startDateOverrides,  \* Project -> string value (Undefined: no entry)
    endDateOverrides,    \* Project -> string value (Undefined: no entry)
    dragState,           \* the timeline's drag session, or NoDrag
    pointerX,            \* where the pointer is (clientX of the last mouse event)
    emitted,             \* the onDateChange / onEndDateChange calls of the last pointer-up
    listeners,           \* the timeline's handlers registered on window
    projectTasks,        \* the task store: Seq(task)
    projectFileName,     \* the recorded name of the last accepted file
    pendingReads,        \* FileReaders that have not fired onload / onerror yet
    error,               \* the error banner
    isLoading,           \* a scheduling run is in progress (the Run button is disabled)
    progress,            \* simulationProgress, progressMessage, progressStep
    pollingIntervalRef,  \* pollingIntervalRef.current: the id of the last created poll timer
    timers,              \* the ids of the poll timers that are live
    runs,                \* the runs started: what each closed over, its job, its requests
    loadingTimeouts,     \* pending setTimeout(() => setIsLoading(false), 1000) callbacks
    summarySource,       \* history: which handler set summaryData last
    optimizationResults, \* the optimizer's result awaiting 'apply', or NoOptimization
    lastRunState,        \* the inputs recorded when the last run was started, or NoRunState
    needsRerun,          \* the 'inputs changed since the last run' flag
    isOptimizing,        \* a resource-optimization run is in progress
    optimizer,           \* the optimizer's job and the status requests on their way
    csvTable,            \* the rows handed to simpleCsvUnparse, or NoTable
    csvText,             \* a CSV text (a sequence of characters), or NoText
    csvParsed            \* what robustCsvParse returned for csvText, or NotParsed

dragVars == << dragState, pointerX, emitted, listeners >>
viewVars == << summaryData, startDateOverrides, endDateOverrides >>
uploadVars == << projectTasks, projectFileName, pendingReads >>
rerunVars == << lastRunState, needsRerun >>
optimizerVars == << isOptimizing, optimizer >>
runVars == << isLoading, progress, pollingIntervalRef, timers, runs,
             loadingTimeouts, summarySource, optimizationResults,
             lastRunState, needsRerun, isOptimizing, optimizer >>
csvVars == << csvTable, csvText, csvParsed >>
vars == << host, routingData, summaryData, startDateOverrides, endDateOverrides,
           dragState, pointerX, emitted, listeners,
           projectTasks, projectFileName, pendingReads, error,
           isLoading, progress, pollingIntervalRef, timers, runs,
           loadingTimeouts, summarySource, optimizationResults,
           lastRunState, needsRerun, isOptimizing, optimizer,
           csvTable, csvText, csvParsed >>

\* ------------------------------------------------------------ date helpers
\* The host's UTC offset in force at instant t.
OffsetAt(h, t) ==
    IF h.dst /\ t >= DstStartDay * HoursPerDay + 2 - h.tz THEN h.tz + 1 ELSE h.tz

\* The instant at which the host's wall clock shows hour hr of calendar day day
\* (a wall time inside the skipped hour is read with the standard offset).
FromLocal(h, day, hr) ==
    LET wall == day * HoursPerDay + hr
    IN  IF h.dst /\ wall >= DstStartDay * HoursPerDay + 3
        THEN wall - (h.tz + 1)
        ELSE wall - h.tz

LocalDay(h, t) == (t + OffsetAt(h, t)) \div HoursPerDay
LocalHour(h, t) == (t + OffsetAt(h, t)) % HoursPerDay

\* parseDate: null for a missing, empty or unparseable string, else local midnight.
parseDate(h, s) ==
    IF s.k = "date" THEN DateAt(FromLocal(h, s.d, 0)) ELSE Null

\* formatDate of a Date (or null): the UTC calendar day of the instant, '' for null.
formatDate(date) ==
    IF date = Null THEN EmptyStr ELSE DateStr(date[1] \div HoursPerDay)

\* addDays: setDate(getDate() + days) on the host's local calendar.
addDays(h, date, days) ==
    DateAt(FromLocal(h, LocalDay(h, date[1]) + days, LocalHour(h, date[1])))

\* --------------------------------------------------- aggregation (complete)
\* String.localeCompare on the names the model uses: their rank in this list.
NameOrder == << "Store-A", "Store-B", "X", "Y" >>
NameRank(s) == CHOOSE i \in 1 .. Len(NameOrder) : NameOrder[i] = s

\* A field of a row, undefined when the row does not carry it.
Field(row, name) == IF name \in DOMAIN row THEN row[name] ELSE Undefined

\* The comparator of the project summary's sort: by Store, then by Project.
RowBefore(a, b) ==
    \/ NameRank(a.Store) < NameRank(b.Store)
    \/ a.Store = b.Store /\ NameRank(a.Project) < NameRank(b.Project)

\* Array.prototype.sort (stable) under RowBefore, by insertion.
InsertRow(sorted, x) ==
    LET k == Cardinality({i \in DOMAIN sorted : ~RowBefore(x, sorted[i])})
    IN  SubSeq(sorted, 1, k) \o << x >> \o SubSeq(sorted, k + 1, Len(sorted))

RECURSIVE SortRows(_, _)
SortRows(list, n) ==
    IF n = 0 THEN << >> ELSE InsertRow(SortRows(list, n - 1), list[n])

\* diffDays without Math.round: the whole days of the difference.
ProjectDiffDaysTruncated(h, ov, p) ==
    LET effectiveDueDate == parseDate(h, Or(ov[p.Project], Field(p, "DueDate")))
        finishDate == parseDate(h, Field(p, "FinishDate"))
    IN  IF effectiveDueDate # Null /\ finishDate # Null
        THEN (effectiveDueDate[1] - finishDate[1]) \div HoursPerDay
        ELSE 0

\* diffDays of one project row: round((effective due - finish) / one day), 0 when
\* either date does not parse.  ov is the endDateOverrides the handler closed over.
ProjectDiffDays(h, ov, p) ==
    LET effectiveDueDate == parseDate(h, Or(ov[p.Project], Field(p, "DueDate")))
        finishDate == parseDate(h, Field(p, "FinishDate"))
    IN  IF effectiveDueDate # Null /\ finishDate # Null
        THEN MathRound(effectiveDueDate[1] - finishDate[1], HoursPerDay)
        ELSE 0

SummaryRow(h, ov, p) ==
    [Project |-> p.Project, Store |-> p.Store,
     StartDate |-> Field(p, "StartDate"), DueDate |-> Field(p, "DueDate"),
     FinishDate |-> Field(p, "FinishDate"),
     OriginalStartDate |-> Field(p, "StartDate"),
     daysVariance |-> ProjectDiffDays(h, ov, p)]

projectSummaryList(h, ov, rows) ==
    SortRows([i \in DOMAIN rows |-> SummaryRow(h, ov, rows[i])], Len(rows))

\* One step of the forEach that fills storeSummaryMap.
StoreStep(h, ov, m, p) ==
    LET startDate == parseDate(h, p.StartDate)
        finishDate == parseDate(h, p.FinishDate)
        dueDate == parseDate(h, Or(ov[p.Project], p.DueDate))
    IN  IF startDate = Null \/ finishDate = Null \/ dueDate = Null THEN m
        ELSE IF p.Store \notin DOMAIN m
        THEN m @@ (p.Store :> [Store |-> p.Store, StartDate |-> startDate,
                               FinishDate |-> finishDate, DueDate |-> dueDate])
        ELSE [m EXCEPT ![p.Store] =
                [Store |-> @.Store,
                 StartDate |-> IF startDate[1] < @.StartDate[1] THEN startDate ELSE @.StartDate,
                 FinishDate |-> IF finishDate[1] > @.FinishDate[1] THEN finishDate ELSE @.FinishDate,
                 DueDate |-> IF dueDate[1] > @.DueDate[1] THEN dueDate ELSE @.DueDate]]

RECURSIVE storeSummaryMap(_, _, _, _)
storeSummaryMap(h, ov, list, n) ==
    IF n = 0 THEN [s \in {} |-> Undefined]
    ELSE StoreStep(h, ov, storeSummaryMap(h, ov, list, n - 1), list[n])

StoreRow(s) ==
    [Store |-> s.Store, StartDate |-> formatDate(s.StartDate),
     FinishDate |-> formatDate(s.FinishDate), DueDate |-> formatDate(s.DueDate),
     daysVariance |-> MathRound(s.DueDate[1] - s.FinishDate[1], HoursPerDay)]

\* Object.values(storeSummaryMap).map(...).sort(by Store).
RECURSIVE SortedStores(_)
SortedStores(S) ==
    IF S = {} THEN << >>
    ELSE LET first == CHOOSE s \in S : \A t \in S : NameRank(s) <= NameRank(t)
         IN  << first >> \o SortedStores(S \ {first})

storeSummaryList(h, ov, plist) ==
    LET m == storeSummaryMap(h, ov, plist, Len(plist))
        order == SortedStores(DOMAIN m)
    IN  [i \in DOMAIN order |-> StoreRow(m[order[i]])]

\* What the complete branch hands to setSummaryData.
CompletedSummary(h, ov, rows) ==
    LET plist == projectSummaryList(h, ov, rows)
    IN  [project |-> plist, store |-> storeSummaryList(h, ov, plist)]

\* ------------------------------------------------ ProjectGanttChartComponent
NoDrag == [type |-> "none"]
DragTypes == {"move", "resize-start", "resize-end"}

\* validTimestamps without the rows' DueDate.
validTimestampsWithoutDue(h, projects, sOv, eOv) ==
    UNION { { d[1] : d \in { parseDate(h, Field(projects[i], "OriginalStartDate")),
                             parseDate(h, Or(sOv[projects[i].Project], Field(projects[i], "StartDate"))),
                             parseDate(h, Or(eOv[projects[i].Project], Field(projects[i], "FinishDate"))) }
                           \ {Null} }
            : i \in DOMAIN projects }

\* The four dates of every displayed project that parse (validTimestamps).
validTimestamps(h, projects, sOv, eOv) ==
    UNION { { d[1] : d \in { parseDate(h, Field(projects[i], "OriginalStartDate")),
                             parseDate(h, Field(projects[i], "DueDate")),
                             parseDate(h, Or(sOv[projects[i].Project], Field(projects[i], "StartDate"))),
                             parseDate(h, Or(eOv[projects[i].Project], Field(projects[i], "FinishDate"))) }
                           \ {Null} }
            : i \in DOMAIN projects }

SetMin(S) == CHOOSE x \in S : \A y \in S : x <= y
SetMax(S) == CHOOSE x \in S : \A y \in S : x >= y

\* The memoized { minDate, maxDate }: null when nothing is displayed or no date parses.
ganttDomain(h, projects, sOv, eOv) ==
    LET ts == validTimestamps(h, projects, sOv, eOv)
    IN  IF Len(projects) = 0 \/ ts = {}
        THEN [minDate |-> Null, maxDate |-> Null]
        ELSE [minDate |-> addDays(h, DateAt(SetMin(ts)), -7),
              maxDate |-> addDays(h, DateAt(SetMax(ts)), 7)]

currentDomain == ganttDomain(host, summaryData.project, startDateOverrides, endDateOverrides)

chartWidth == ChartPixelWidth - MarginLeft - MarginRight

\* dayDelta = Math.round(deltaX / pixelsPerDay), pixelsPerDay = chartWidth / totalDays.
\* Math.round rounds halves upwards, so a negative ratio is rounded through its floor.
dayDelta(dom, deltaX) ==
    LET totalHours == dom.maxDate[1] - dom.minDate[1]
    IN  MathRound(deltaX * totalHours, HoursPerDay * chartWidth)

\* newVisual with the two clamps testing < and > where the code tests <= and >=.
newVisualStrictClamp(h, ds, dd) ==
    LET initStart == ds.initialStartDate
        initFinish == ds.initialFinishDate
    IN  CASE ds.type = "move" ->
                LET newVisualStart == addDays(h, initStart, dd)
                    duration == initFinish[1] - initStart[1]
                IN  [start |-> newVisualStart, finish |-> DateAt(newVisualStart[1] + duration)]
          [] ds.type = "resize-end" ->
                LET newVisualFinish == addDays(h, initFinish, dd)
                IN  [start |-> initStart,
                     finish |-> IF newVisualFinish[1] < initStart[1]
                                THEN addDays(h, initStart, 1) ELSE newVisualFinish]
          [] ds.type = "resize-start" ->
                LET newVisualStart == addDays(h, initStart, dd)
                IN  [start |-> IF newVisualStart[1] > initFinish[1]
                               THEN addDays(h, initFinish, -1) ELSE newVisualStart,
                     finish |-> initFinish]

\* The visual dates handleMouseMove computes for a session and a dayDelta.
newVisual(h, ds, dd) ==
    LET initStart == ds.initialStartDate
        initFinish == ds.initialFinishDate
    IN  CASE ds.type = "move" ->
                LET newVisualStart == addDays(h, initStart, dd)
                    duration == initFinish[1] - initStart[1]
                IN  [start |-> newVisualStart, finish |-> DateAt(newVisualStart[1] + duration)]
          [] ds.type = "resize-end" ->
                LET newVisualFinish == addDays(h, initFinish, dd)
                IN  [start |-> initStart,
                     finish |-> IF newVisualFinish[1] <= initStart[1]
                                THEN addDays(h, initStart, 1) ELSE newVisualFinish]
          [] ds.type = "resize-start" ->
                LET newVisualStart == addDays(h, initStart, dd)
                IN  [start |-> IF newVisualStart[1] >= initFinish[1]
                               THEN addDays(h, initFinish, -1) ELSE newVisualStart,
                     finish |-> initFinish]

StartCall(project, date) == [cb |-> "onDateChange", project |-> project, date |-> date]
EndCall(project, date) == [cb |-> "onEndDateChange", project |-> project, date |-> date]

\* The callbacks handleMouseUp invokes for a session, in order.
mouseUpCalls(ds) ==
    CASE ds.type = "move" ->
            IF formatDate(ds.visualStartDate) # formatDate(ds.initialStartDate)
            THEN LET duration == ds.initialFinishDate[1] - ds.initialStartDate[1]
                     newEndDate == DateAt(ds.visualStartDate[1] + duration)
                 IN  << StartCall(ds.project, formatDate(ds.visualStartDate)),
                        EndCall(ds.project, formatDate(newEndDate)) >>
            ELSE << >>
      [] ds.type = "resize-start" ->
            IF formatDate(ds.visualStartDate) # formatDate(ds.initialStartDate)
            THEN << StartCall(ds.project, formatDate(ds.visualStartDate)) >>
            ELSE << >>
      [] ds.type = "resize-end" ->
            IF formatDate(ds.visualFinishDate) # formatDate(ds.initialFinishDate)
            THEN << EndCall(ds.project, formatDate(ds.visualFinishDate)) >>
            ELSE << >>

\* handleStartDateChange / handleEndDateChange applied for every call of a list.
RECURSIVE ApplyCalls(_, _, _)
ApplyCalls(ov, calls, cb) ==
    IF calls = << >> THEN ov
    ELSE LET c == Head(calls)
             ov1 == IF c.cb = cb THEN [ov EXCEPT ![c.project] = c.date] ELSE ov
         IN  ApplyCalls(ov1, Tail(calls), cb)

\* The plan bar of a row is drawn (and can be grabbed) when both plan dates parse.
planStartDate(h, p, sOv) == parseDate(h, Or(sOv[p.Project], Field(p, "OriginalStartDate")))
planDueDate(h, p, eOv) == parseDate(h, Or(eOv[p.Project], Field(p, "DueDate")))

chartRendered ==
    /\ Len(summaryData.project) > 0
    /\ ChartPixelWidth > 0
    /\ currentDomain.minDate # Null
    /\ currentDomain.maxDate # Null

\* The green / red bar of a row: what the engine reported, whatever the overrides.
actualStartDate(h, p) == parseDate(h, Field(p, "StartDate"))
actualFinishDate(h, p) == parseDate(h, Field(p, "FinishDate"))

\* The dates a row's bars are drawn at outside a drag: nothing when a plan date
\* does not parse, the actual bar only when its width is positive.
drawnDates(h, p, sOv, eOv) ==
    LET start == planStartDate(h, p, sOv)
        due == planDueDate(h, p, eOv)
        actualStart == actualStartDate(h, p)
        actualFinish == actualFinishDate(h, p)
    IN  IF start = Null \/ due = Null THEN {}
        ELSE {start, due} \cup
             (IF actualStart # Null /\ actualFinish # Null /\ actualFinish[1] > actualStart[1]
              THEN {actualStart, actualFinish} ELSE {})

\* Repeated drags move a bar without limit; the model starts a session only on a
\* bar whose two plan dates lie in Days.
InDragWindow(h, date) == LocalDay(h, date[1]) \in Days

\* handleMouseDown on the bar body or on one of its two handles.
\* The handleMouseMove and handleMouseUp an effect run creates: closures over the
\* dragState of the render the effect belongs to.
handlersOf(ds) == {[type |-> t, dragState |-> ds] : t \in {"mousemove", "mouseup"}}

\* The effect without its cleanup: the new handlers are added, none is removed.
useEffectListenersKeepingOld(registered, prev, next) ==
    registered \cup (IF next # NoDrag THEN handlersOf(next) ELSE {})

\* The listener effect across a render that takes dragState from prev to next: the
\* cleanup of the previous run removes its two handlers, the new run adds its own
\* when a session is active.
useEffectListeners(registered, prev, next) ==
    (registered \ handlersOf(prev)) \cup (IF next # NoDrag THEN handlersOf(next) ELSE {})

handleMouseDown(i, type, x) ==
    LET p == summaryData.project[i]
        initialStartDate == planStartDate(host, p, startDateOverrides)
        initialFinishDate == planDueDate(host, p, endDateOverrides)
    IN  /\ dragState = NoDrag
        /\ chartRendered
        /\ initialStartDate # Null
        /\ initialFinishDate # Null
        /\ InDragWindow(host, initialStartDate)
        /\ InDragWindow(host, initialFinishDate)
        /\ dragState' = [type |-> type, project |-> p.Project, startX |-> x,
                         initialStartDate |-> initialStartDate,
                         initialFinishDate |-> initialFinishDate,
                         visualStartDate |-> initialStartDate,
                         visualFinishDate |-> initialFinishDate]
        /\ pointerX' = x
        /\ emitted' = << >>
        /\ listeners' = useEffectListeners(listeners, dragState, dragState')
        /\ UNCHANGED << host, routingData, viewVars >>

\* A handleMouseMove that also takes the pointer's position as the session's new
\* origin.
handleMouseMoveReanchoring(x) ==
    \E l \in listeners :
      LET dom == currentDomain
          v == newVisual(host, l.dragState, dayDelta(dom, x - l.dragState.startX))
      IN  /\ l.type = "mousemove"
          /\ l.dragState # NoDrag
          /\ dragState # NoDrag
          /\ pointerX' = x
          /\ dragState' = [dragState EXCEPT !.visualStartDate = v.start,
                                            !.visualFinishDate = v.finish,
                                            !.startX = x]
          /\ listeners' = useEffectListeners(listeners, dragState, dragState')
          /\ UNCHANGED << host, routingData, viewVars, emitted >>

\* A mousemove on window reaches the registered handleMouseMove, which reads the
\* dragState it closed over and updates the session through setDragState(prev => ...).
handleMouseMove(x) ==
    \E l \in listeners :
      LET dom == currentDomain
          ignored == \/ dom.minDate = Null \/ dom.maxDate = Null
                     \/ ChartPixelWidth <= 0
                     \/ dom.maxDate[1] - dom.minDate[1] <= 0
          v == newVisual(host, l.dragState, dayDelta(dom, x - l.dragState.startX))
      IN  /\ l.type = "mousemove"
          /\ l.dragState # NoDrag
          /\ dragState # NoDrag
          /\ pointerX' = x
          /\ dragState' = IF ignored THEN dragState
                          ELSE [dragState EXCEPT !.visualStartDate = v.start,
                                                 !.visualFinishDate = v.finish]
          /\ listeners' = useEffectListeners(listeners, dragState, dragState')
          /\ UNCHANGED << host, routingData, viewVars, emitted >>

\* A mouseup on window reaches the registered handleMouseUp: commit what changed,
\* end the session.
handleMouseUp ==
    \E l \in listeners :
      LET calls == mouseUpCalls(l.dragState)
      IN  /\ l.type = "mouseup"
          /\ l.dragState # NoDrag
          /\ dragState # NoDrag
          /\ emitted' = calls
          /\ startDateOverrides' = ApplyCalls(startDateOverrides, calls, "onDateChange")
          /\ endDateOverrides' = ApplyCalls(endDateOverrides, calls, "onEndDateChange")
          /\ dragState' = NoDrag
          /\ listeners' = useEffectListeners(listeners, dragState, dragState')
          /\ UNCHANGED << host, routingData, summaryData, pointerX >>

\* The chart is unmounted (no project matches the filter any more): the cleanup of
\* the last effect run removes its handlers and the component's state is dropped;
\* mounted again it starts from useState(null).
chartUnmount ==
    /\ listeners' = listeners \ handlersOf(dragState)
    /\ dragState' = NoDrag
    /\ UNCHANGED << host, routingData, viewVars, pointerX, emitted >>

\* The date inputs of the summary table's project rows.
TableDates == {EmptyStr} \cup {DateStr(n) : n \in Days}

handleStartDateChange(i, newDate) ==
    /\ dragState = NoDrag
    /\ startDateOverrides' =
          [startDateOverrides EXCEPT ![summaryData.project[i].Project] = newDate]
    /\ UNCHANGED << host, routingData, summaryData, endDateOverrides, dragVars >>

handleEndDateChange(i, newDate) ==
    /\ dragState = NoDrag
    /\ endDateOverrides' =
          [endDateOverrides EXCEPT ![summaryData.project[i].Project] = newDate]
    /\ UNCHANGED << host, routingData, summaryData, startDateOverrides, dragVars >>

NoOverrides == [p \in Projects |-> Undefined]

\* The remote projectSummary rows the timeline specification starts from.
RemoteRow(project, store, start, due, finish) ==
    [Project |-> project, Store |-> store, StartDate |-> start,
     DueDate |-> due, FinishDate |-> finish]

DragResults ==
    { << RemoteRow("X", "Store-A", DateStr(DayLo), DateStr(DayLo + DaySpan), DateStr(DayLo + 1)) >> }

\* No run has been started and no optimizer result is waiting.
NoOptimization == [optimizedTeamDefs |-> FALSE, projectSummary |-> << >>]

\* lastRunState before the first run (useState(null)).
NoRunState == [started |-> FALSE]

\* No optimizer job has been posted.
NoOptimizer == [job |-> "none", timer |-> FALSE, inflight |-> 0]

\* The team member names fetched at mount: an object, whatever the fetch gave.
teamMemberNameMap == "{}"

\* The string the needsRerun effect builds from the current inputs.  (Of the
\* inputs only the overrides and the task store change in the model; the key
\* set of the serialized object is what the record's fields stand for.)
effectState ==
    [startDateOverrides |-> startDateOverrides, endDateOverrides |-> endDateOverrides,
     projectTasks |-> projectTasks]

\* The string runSchedulingEngine stores in lastRunState: the same inputs and
\* teamMemberNameMap.
runStartState ==
    [startDateOverrides |-> startDateOverrides, endDateOverrides |-> endDateOverrides,
     projectTasks |-> projectTasks, teamMemberNameMap |-> teamMemberNameMap]

\* The value of needsRerun after a step: assigned is what the step's handler
\* left in it, depsChanged whether a dependency of the effect got a new value.
needsRerunEffect(assigned, depsChanged) ==
    IF depsChanged /\ lastRunState' # NoRunState
    THEN effectState' # lastRunState'
    ELSE assigned
NoSource == [kind |-> "none", run |-> 0]
InitialProgress == [simulationProgress |-> 0, progressMessage |-> "", progressStep |-> ""]

\* No CSV text is being written or read.
NoTable == [headers |-> << >>, rows |-> << >>, given |-> FALSE]
NoText == [given |-> FALSE, chars |-> << >>]
NotParsed == [parsed |-> FALSE, data |-> << >>, errors |-> << >>]
IdleCsv ==
    /\ csvTable = NoTable
    /\ csvText = NoText
    /\ csvParsed = NotParsed

IdleRun ==
    /\ isLoading = FALSE
    /\ progress = InitialProgress
    /\ pollingIntervalRef = 0
    /\ timers = {}
    /\ runs = << >>
    /\ loadingTimeouts = 0
    /\ summarySource = NoSource
    /\ optimizationResults = NoOptimization
    /\ lastRunState = NoRunState
    /\ needsRerun = FALSE
    /\ isOptimizing = FALSE
    /\ optimizer = NoOptimizer

IdleDrag ==
    /\ dragState = NoDrag
    /\ pointerX = 0
    /\ emitted = << >>
    /\ listeners = {}

\* The timeline after a completed run: a summary on display, no session.
InitDrag ==
    /\ host \in Hosts
    /\ routingData = NotFetched
    /\ startDateOverrides = NoOverrides
    /\ endDateOverrides = NoOverrides
    /\ \E rows \in DragResults : summaryData = CompletedSummary(host, NoOverrides, rows)
    /\ IdleDrag
    /\ projectTasks = << >>
    /\ projectFileName = ""
    /\ pendingReads = << >>
    /\ error = NoError
    /\ IdleRun
    /\ IdleCsv

NextDrag ==
    /\ UNCHANGED << uploadVars, error, runVars, csvVars >>
    /\ \/ \E i \in DOMAIN summaryData.project, type \in DragTypes, x \in PointerXs :
              handleMouseDown(i, type, x)
       \/ \E x \in PointerXs : handleMouseMove(x)
       \/ handleMouseUp
       \/ chartUnmount
       \/ \E i \in DOMAIN summaryData.project, d \in TableDates : handleStartDateChange(i, d)
       \/ \E i \in DOMAIN summaryData.project, d \in TableDates : handleEndDateChange(i, d)

SpecDrag == InitDrag /\ [][NextDrag]_vars

\* ------------------------------------------------------- project CSV upload
\* A data line of a CSV file as robustCsvParse sees it: a line whose split gives
\* the header's number of fields (a row object) or any other number (a warning).
RowLine(row) == [ok |-> TRUE, row |-> row]
MalformedLine == [ok |-> FALSE, row |-> << >>]

\* robustCsvParse of a file: the row objects, and the number of warnings.  A text
\* of fewer than two lines gives no rows and the one error 'CSV has no data rows.'
robustCsvParse(file) ==
    IF Len(file.lines) = 0
    THEN [data |-> << >>, errors |-> 1]
    ELSE [data |-> [i \in 1 .. Cardinality({j \in DOMAIN file.lines : file.lines[j].ok}) |->
                      file.lines[CHOOSE j \in DOMAIN file.lines :
                          /\ file.lines[j].ok
                          /\ Cardinality({k \in 1 .. j : file.lines[k].ok}) = i].row],
          errors |-> Cardinality({j \in DOMAIN file.lines : ~file.lines[j].ok})]

\* The second map of loadAndCleanData: the coercions of one row.
\* renamedCols in the order of its keys: a column of the file and the column of
\* the cleaned row its value is written to.
renamedCols ==
    << << "Game", "Project" >>, << "Project", "Project" >>,
       << "Expected Hours", "EstimatedHours" >>, << "Labor Time", "EstimatedHours" >>,
       << "EstimatedHours", "EstimatedHours" >>,
       << "Due Date", "DueDate" >>, << "Start Date", "StartDate" >>,
       << "Value", "Value" >>, << "Store", "Store" >> >>

\* if (row[key]): the columns of names are plain text, the others string values.
cellTruthy(row, key) ==
    /\ key \in DOMAIN row
    /\ IF key \in {"Game", "Project", "Store"} THEN row[key] # "" ELSE Truthy(row[key])

\* The loop over renamedCols up to its n-th key: newRow[renamedCols[key]] = row[key]
\* for every key the row holds a truthy value for.
RECURSIVE renameCols(_, _)
renameCols(row, n) ==
    IF n = 0 THEN row
    ELSE LET newRow == renameCols(row, n - 1)
             key == renamedCols[n][1]
             target == renamedCols[n][2]
         IN  IF cellTruthy(row, key)
             THEN [c \in DOMAIN newRow \cup {target} |->
                      IF c = target THEN row[key] ELSE newRow[c]]
             ELSE newRow

coerceRow(h, row) ==
    [Project |-> row.Project, SKU |-> row.SKU,
     Store |-> IF row.Store = "" THEN "N/A" ELSE row.Store,
     Order |-> parseNumber(row.Order),
     EstimatedHours |-> parseNumber(row.EstimatedHours),
     Value |-> IF parseNumber(Field(row, "Value")) = NaN THEN << 0 >>
               ELSE parseNumber(Field(row, "Value")),
     StartDate |-> parseDate(h, row.StartDate),
     DueDate |-> parseDate(h, row.DueDate)]

\* The filter of loadAndCleanData.
rowKept(r) ==
    /\ r.Project # "" /\ r.SKU # "" /\ r.Store # ""
    /\ r.Order # NaN /\ r.DueDate # Null /\ r.StartDate # Null
    /\ r.EstimatedHours # NaN

FilterSeq(seq, Keep(_)) ==
    LET idx == {i \in DOMAIN seq : Keep(seq[i])}
    IN  [n \in 1 .. Cardinality(idx) |->
            seq[CHOOSE i \in idx : Cardinality({j \in idx : j <= i}) = n]]

\* loadAndCleanData: [] for no input, null (here: Null) with the blocking error
\* when no row of a non-empty input survives, else the surviving rows.
CleanFailed == [failed |-> TRUE, rows |-> << >>]

\* loadAndCleanData without its null: an empty list when no row survives.
loadAndCleanDataNeverNull(h, data) ==
    [failed |-> FALSE,
     rows |-> FilterSeq([i \in DOMAIN data |->
                            coerceRow(h, renameCols(data[i], Len(renamedCols)))], rowKept)]

loadAndCleanData(h, data) ==
    LET processed == FilterSeq([i \in DOMAIN data |->
                                   coerceRow(h, renameCols(data[i], Len(renamedCols)))], rowKept)
    IN  IF Len(data) = 0 THEN [failed |-> FALSE, rows |-> << >>]
        ELSE IF Len(processed) = 0 THEN CleanFailed
        ELSE [failed |-> FALSE, rows |-> processed]

\* builtProjects, as the upload uses it: the project names of the task store.
builtProjectNames(tasks) == {tasks[i].Project : i \in DOMAIN tasks}

\* The names of a batch in order of first occurrence (new Set(cleanedData.map(...))).
RECURSIVE DistinctNames(_)
DistinctNames(rows) ==
    IF rows = << >> THEN << >>
    ELSE LET rest == DistinctNames(SubSeq(rows, 1, Len(rows) - 1))
             name == rows[Len(rows)].Project
         IN  IF \E i \in DOMAIN rest : rest[i] = name THEN rest ELSE Append(rest, name)

\* duplicates: the incoming names that the closed-over builtProjects holds.
duplicates(cleaned, existing) ==
    LET Exists(name) == name \in existing
    IN  FilterSeq(DistinctNames(cleaned), Exists)

DuplicateError(names) == [kind |-> "duplicate", names |-> names]
CsvIssuesError == [kind |-> "csv-issues"]
NoValidRowsError == [kind |-> "no-valid-rows"]
NoDataError == [kind |-> "no-data"]
FileReadError == [kind |-> "file-read"]

\* The files a user may pick.
GoodRow(project, store) ==
    [Project |-> project, SKU |-> "SKU-1", Store |-> store,
     Order |-> NumStr(1), EstimatedHours |-> NumStr(2),
     StartDate |-> DateStr(DayLo), DueDate |-> DateStr(DayLo + 1)]

UploadFiles ==
    { [name |-> "a.csv", lines |-> << RowLine(GoodRow("Job-001", "Store-A")),
                                      RowLine(GoodRow("Job-002", "Store-A")) >>],
      [name |-> "b.csv", lines |-> << RowLine(GoodRow("Job-001", "Store-B")) >>],
      [name |-> "c.csv", lines |-> << MalformedLine,
                                      RowLine(GoodRow("Job-002", "")),
                                      RowLine([GoodRow("Job-001", "Store-A") EXCEPT !.SKU = ""]) >>],
      [name |-> "d.csv", lines |-> << RowLine([GoodRow("Job-001", "Store-A") EXCEPT !.Order = BadStr]) >>],
      [name |-> "e.csv", lines |-> << >>] }

PendingLines(reads) ==
    LET RECURSIVE Sum(_)
        Sum(n) == IF n = 0 THEN 0 ELSE Sum(n - 1) + Len(reads[n].file.lines)
    IN  Sum(Len(reads))

\* handleFileChange: a file is chosen; the reader's onload closes over the
\* builtProjects of this render.
handleFileChange(file) ==
    /\ Len(pendingReads) < MaxPendingReads
    /\ Len(projectTasks) + PendingLines(pendingReads) + Len(file.lines) <= MaxTasks
    /\ error' = NoError
    /\ pendingReads' = Append(pendingReads,
                          [file |-> file, builtProjects |-> builtProjectNames(projectTasks)])
    /\ UNCHANGED << host, routingData, viewVars, dragVars, projectTasks, projectFileName >>

RemoveAt(seq, i) == SubSeq(seq, 1, i - 1) \o SubSeq(seq, i + 1, Len(seq))

\* What reader.onload leaves in the task store, the file name and the banner.
onloadOutcome(h, read, tasks, fileName, err) ==
    LET results == robustCsvParse(read.file)
        err1 == IF results.errors > 0 THEN CsvIssuesError ELSE err
        cleanedData == loadAndCleanData(h, results.data)
        err2 == IF cleanedData.failed THEN NoValidRowsError ELSE err1
        dups == duplicates(cleanedData.rows, read.builtProjects)
    IN  IF ~cleanedData.failed /\ Len(cleanedData.rows) > 0
        THEN IF Len(dups) > 0
             THEN [tasks |-> tasks, fileName |-> fileName, error |-> DuplicateError(dups)]
             ELSE [tasks |-> tasks \o cleanedData.rows, fileName |-> read.file.name,
                   error |-> IF results.errors = 0 THEN NoError ELSE err2]
        ELSE IF Len(results.data) = 0
        THEN [tasks |-> tasks, fileName |-> fileName, error |-> NoDataError]
        ELSE [tasks |-> tasks, fileName |-> fileName, error |-> err2]

\* reader.onload of the i-th outstanding read.
readerOnload(i) ==
    LET out == onloadOutcome(host, pendingReads[i], projectTasks, projectFileName, error)
    IN  /\ i \in DOMAIN pendingReads
        /\ projectTasks' = out.tasks
        /\ projectFileName' = out.fileName
        /\ error' = out.error
        /\ pendingReads' = RemoveAt(pendingReads, i)
        /\ UNCHANGED << host, routingData, viewVars, dragVars >>

\* reader.onerror of the i-th outstanding read.
readerOnerror(i) ==
    /\ i \in DOMAIN pendingReads
    /\ error' = FileReadError
    /\ pendingReads' = RemoveAt(pendingReads, i)
    /\ UNCHANGED << host, routingData, viewVars, dragVars, projectTasks, projectFileName >>

\* handleRemoveProject: the remove button of a listed project.
handleRemoveProject(name) ==
    /\ name \in builtProjectNames(projectTasks)
    /\ LET Other(task) == task.Project # name
       IN  projectTasks' = FilterSeq(projectTasks, Other)
    /\ UNCHANGED << host, routingData, viewVars, dragVars, projectFileName, pendingReads, error >>

\* handleClearAllProjects.
handleClearAllProjects ==
    /\ Len(projectTasks) > 0
    /\ projectTasks' = << >>
    /\ projectFileName' = ""
    /\ error' = NoError
    /\ UNCHANGED << host, routingData, viewVars, dragVars, pendingReads >>

InitUpload ==
    /\ host \in Hosts
    /\ routingData = NotFetched
    /\ summaryData = [project |-> << >>, store |-> << >>]
    /\ startDateOverrides = NoOverrides
    /\ endDateOverrides = NoOverrides
    /\ IdleDrag
    /\ projectTasks = << >>
    /\ projectFileName = ""
    /\ pendingReads = << >>
    /\ error = NoError
    /\ IdleRun
    /\ IdleCsv

NextUpload ==
    /\ UNCHANGED << runVars, csvVars >>
    /\ \/ \E f \in UploadFiles : handleFileChange(f)
       \/ \E i \in DOMAIN pendingReads : readerOnload(i)
       \/ \E i \in DOMAIN pendingReads : readerOnerror(i)
       \/ \E name \in builtProjectNames(projectTasks) : handleRemoveProject(name)
       \/ handleClearAllProjects

SpecUpload == InitUpload /\ [][NextUpload]_vars

\* ------------------------------------------------------ runSchedulingEngine
StartingProgress ==
    [simulationProgress |-> 0, progressMessage |-> "Initializing schedule...",
     progressStep |-> "starting"]
DoneProgress(pct) ==
    [simulationProgress |-> pct, progressMessage |-> "Schedule complete!",
     progressStep |-> "done"]

\* What the service reports as progress of a job in a given state, and the three
\* setters the poll callback calls first (message and step absent: the defaults).
JobPct(job) == IF job = "complete" THEN 100 ELSE 50
StatusProgress(job) ==
    [simulationProgress |-> JobPct(job), progressMessage |-> "Processing...",
     progressStep |-> "simulating"]

StartError == [kind |-> "start"]
StatusError == [kind |-> "status"]

RunSource(r) == [kind |-> "run", run |-> r]
OptimizerSource == [kind |-> "optimizer", run |-> 0]

\* The projectSummary a job of the scheduling specification may return.
RunResults ==
    { << RemoteRow("X", "Store-A", DateStr(DayLo), DateStr(DayLo + DaySpan), DateStr(DayLo + 1)) >>,
      << RemoteRow("X", "Store-A", DateStr(DayLo), DateStr(DayLo + 1), DateStr(DayLo + DaySpan)) >> }

\* The Run Schedule button: disabled while isLoading or with no task loaded.
\* The handler resets the views and posts the job; it does not touch a poll
\* timer that is still live.
runSchedulingEngineUpTo(maxRuns) ==
    /\ ~isLoading
    /\ Len(projectTasks) > 0
    /\ Len(runs) < maxRuns
    /\ isLoading' = TRUE
    /\ progress' = StartingProgress
    /\ summaryData' = [project |-> << >>, store |-> << >>]
    /\ summarySource' = NoSource
    /\ error' = NoError
    /\ runs' = Append(runs, [job |-> "submitting", endDateOverrides |-> endDateOverrides,
                             result |-> << >>, inflight |-> 0, stopped |-> FALSE])
    /\ lastRunState' = runStartState
    /\ UNCHANGED << host, routingData, startDateOverrides, endDateOverrides, dragVars, csvVars, uploadVars,
                    pollingIntervalRef, timers, loadingTimeouts, optimizationResults,
                    optimizerVars >>
    /\ needsRerun' = needsRerunEffect(FALSE, lastRunState' # lastRunState)

runSchedulingEngine == runSchedulingEngineUpTo(MaxRuns)

\* The POST is answered 202: the poll timer of run r is created.
startAccepted(r, result) ==
    /\ runs[r].job = "submitting"
    /\ runs' = [runs EXCEPT ![r].job = "running", ![r].result = result]
    /\ pollingIntervalRef' = r
    /\ timers' = timers \cup {r}
    /\ UNCHANGED << host, routingData, viewVars, dragVars, csvVars, uploadVars, error, isLoading, progress,
                    loadingTimeouts, summarySource, optimizationResults, rerunVars, optimizerVars >>

\* The POST fails or is answered with another status: the outer catch.
startFailed(r) ==
    /\ runs[r].job = "submitting"
    /\ runs' = [runs EXCEPT ![r].job = "rejected"]
    /\ error' = StartError
    /\ isLoading' = FALSE
    /\ UNCHANGED << host, routingData, viewVars, dragVars, csvVars, uploadVars, progress, pollingIntervalRef,
                    timers, loadingTimeouts, summarySource, optimizationResults, rerunVars, optimizerVars >>

\* The service finishes the job of run r.
jobAdvance(r, to) ==
    /\ runs[r].job = "running"
    /\ runs' = [runs EXCEPT ![r].job = to]
    /\ UNCHANGED << host, routingData, viewVars, dragVars, csvVars, uploadVars, error, isLoading, progress,
                    pollingIntervalRef, timers, loadingTimeouts, summarySource,
                    optimizationResults, rerunVars, optimizerVars >>

\* The 1500 ms timer of run r fires: the callback sends a status request.
pollTick(r) ==
    /\ r \in timers
    /\ runs[r].inflight < MaxInFlight
    /\ runs' = [runs EXCEPT ![r].inflight = @ + 1]
    /\ UNCHANGED << host, routingData, viewVars, dragVars, csvVars, uploadVars, error, isLoading, progress,
                    pollingIntervalRef, timers, loadingTimeouts, summarySource,
                    optimizationResults, rerunVars, optimizerVars >>

\* clearInterval(pollingIntervalRef.current).
clearPolling == timers \ {pollingIntervalRef}

\* A status request of run r fails (network error or !ok): the callback's catch.
statusFailed(r) ==
    /\ runs[r].inflight > 0
    /\ runs' = [runs EXCEPT ![r].inflight = @ - 1, ![r].stopped = TRUE]
    /\ timers' = clearPolling
    /\ error' = StatusError
    /\ isLoading' = FALSE
    /\ UNCHANGED << host, routingData, viewVars, dragVars, csvVars, uploadVars, progress, pollingIntervalRef,
                    loadingTimeouts, summarySource, optimizationResults, rerunVars, optimizerVars >>

\* The endDateOverrides the poll callback of run r reads: the value of the render
\* in which runSchedulingEngine was called, not the state at the response.
liveOverrides(r) == endDateOverrides
closedOverOverrides(r) == runs[r].endDateOverrides

\* The sort of the project summary calls a.Store.localeCompare(b.Store) once there
\* are two rows to compare: a TypeError when the rows carry no Store.  (Which row
\* of a pair the engine passes as a is its own choice; the rows of one result of
\* the model either all carry a Store or all lack it.)
sortThrows(rows) ==
    /\ Len(rows) >= 2
    /\ \A i \in DOMAIN rows : "Store" \notin DOMAIN rows[i]

\* A status request of run r is answered with the job's status.  stopped records
\* that a callback of run r took the error branch or the catch.
\* (The result of a complete job carries no error text of its own.)
statusResponse(r) ==
    LET job == runs[r].job
        thrown == job = "complete" /\ sortThrows(runs[r].result)
    IN  /\ runs[r].inflight > 0
        /\ job \in {"running", "complete", "error"}
        /\ runs' = [runs EXCEPT ![r].inflight = @ - 1,
                                 ![r].stopped = @ \/ job = "error" \/ thrown]
        /\ CASE job = "running" ->
                  /\ progress' = StatusProgress(job)
                  /\ UNCHANGED << summaryData, summarySource, timers, error, isLoading,
                                  loadingTimeouts >>
             [] thrown ->
                  /\ progress' = StatusProgress(job)
                  /\ timers' = clearPolling
                  /\ error' = StatusError
                  /\ isLoading' = FALSE
                  /\ UNCHANGED << summaryData, summarySource, loadingTimeouts >>
             [] job = "complete" /\ ~thrown ->
                  /\ loadingTimeouts < MaxLoadingTimeouts
                  /\ timers' = clearPolling
                  /\ summaryData' = CompletedSummary(host, closedOverOverrides(r), runs[r].result)
                  /\ summarySource' = RunSource(r)
                  /\ progress' = DoneProgress(JobPct(job))
                  /\ loadingTimeouts' = loadingTimeouts + 1
                  /\ UNCHANGED << error, isLoading >>
             [] job = "error" ->
                  /\ progress' = StatusProgress(job)
                  /\ timers' = clearPolling
                  /\ error' = StatusError
                  /\ isLoading' = FALSE
                  /\ UNCHANGED << summaryData, summarySource, loadingTimeouts >>
        /\ UNCHANGED << host, routingData, startDateOverrides, endDateOverrides, dragVars, csvVars, uploadVars,
                        pollingIntervalRef, optimizationResults, rerunVars, optimizerVars >>

\* The timeout set by a completed job fires.
loadingTimeout ==
    /\ loadingTimeouts > 0
    /\ loadingTimeouts' = loadingTimeouts - 1
    /\ isLoading' = FALSE
    /\ UNCHANGED << host, routingData, viewVars, dragVars, csvVars, uploadVars, error, progress,
                    pollingIntervalRef, timers, runs, summarySource, optimizationResults, rerunVars, optimizerVars >>

\* applyOptimizedResources: the optimizer's schedule replaces the summary views
\* and its team definitions replace teamDefs, a dependency of the needsRerun
\* effect.
applyOptimizedResources ==
    /\ optimizationResults # NoOptimization
    /\ optimizationResults.optimizedTeamDefs
    /\ summaryData' = [project |-> optimizationResults.projectSummary, store |-> << >>]
    /\ summarySource' = OptimizerSource
    /\ optimizationResults' = NoOptimization
    /\ error' = NoError
    /\ UNCHANGED << host, routingData, startDateOverrides, endDateOverrides, dragVars, csvVars, uploadVars,
                    isLoading, progress, pollingIntervalRef, timers, runs, loadingTimeouts,
                    lastRunState, optimizerVars >>
    /\ needsRerun' = needsRerunEffect(needsRerun, TRUE)

\* One task in the store, no run started yet.
LoadedTasks(h) == loadAndCleanData(h, << GoodRow("X", "Store-A") >>).rows

InitRun ==
    /\ host \in Hosts
    /\ routingData = NotFetched
    /\ summaryData = [project |-> << >>, store |-> << >>]
    /\ startDateOverrides = NoOverrides
    /\ endDateOverrides = NoOverrides
    /\ IdleDrag
    /\ projectTasks = LoadedTasks(host)
    /\ projectFileName = "x.csv"
    /\ pendingReads = << >>
    /\ error = NoError
    /\ IdleRun
    /\ IdleCsv

NextRun ==
    \/ runSchedulingEngine
    \/ \E r \in DOMAIN runs, result \in RunResults : startAccepted(r, result)
    \/ \E r \in DOMAIN runs : startFailed(r)
    \/ \E r \in DOMAIN runs, to \in {"complete", "error"} : jobAdvance(r, to)
    \/ \E r \in DOMAIN runs : pollTick(r)
    \/ \E r \in DOMAIN runs : statusFailed(r)
    \/ \E r \in DOMAIN runs : statusResponse(r)
    \/ loadingTimeout
    \/ /\ \E i \in DOMAIN summaryData.project, d \in TableDates : handleEndDateChange(i, d)
       /\ UNCHANGED << uploadVars, error, isLoading, progress, pollingIntervalRef, timers, runs,
                       loadingTimeouts, summarySource, optimizationResults, lastRunState,
                       optimizerVars, csvVars >>
       /\ needsRerun' = needsRerunEffect(needsRerun, TRUE)

SpecRun == InitRun /\ [][NextRun]_vars

\* ------------------------------------------- the result of a complete job
\* A projectSummary row that carries no Store.
StorelessRow(project, start, due, finish) ==
    [Project |-> project, StartDate |-> start, DueDate |-> due, FinishDate |-> finish]

\* The projectSummary of a result: absent or empty (results.projectSummary || []),
\* rows with every field, rows without DueDate or FinishDate, rows without Store.
CompleteResults ==
    { << >>,
      << RemoteRow("X", "Store-A", DateStr(DayLo), DateStr(DayLo + 1), DateStr(DayLo + DaySpan)) >>,
      << [Project |-> "Y", Store |-> "Store-B", StartDate |-> DateStr(DayLo)],
         [Project |-> "X", Store |-> "Store-A", StartDate |-> DateStr(DayLo),
          FinishDate |-> DateStr(DayLo + 1)] >>,
      << StorelessRow("X", DateStr(DayLo), DateStr(DayLo + 1), DateStr(DayLo + 1)),
         StorelessRow("Y", DateStr(DayLo), DateStr(DayLo + 1), DateStr(DayLo + 1)) >> }

NextComplete ==
    \/ runSchedulingEngine
    \/ \E r \in DOMAIN runs, result \in CompleteResults : startAccepted(r, result)
    \/ \E r \in DOMAIN runs : jobAdvance(r, "complete")
    \/ \E r \in DOMAIN runs : pollTick(r)
    \/ \E r \in DOMAIN runs : statusResponse(r)
    \/ loadingTimeout

SpecComplete == InitRun /\ [][NextComplete]_vars

\* ------------------------------------------------ completion of one job
\* The rows a finished job may report: X of Store-A alone, or Y (of either store)
\* and X, each date a valid day of one month or not a date at all.
XRows ==
    { RemoteRow("X", "Store-A", start, due, finish) :
        start \in {DateStr(1), BadStr},
        due \in {DateStr(12), EmptyStr},
        finish \in {DateStr(10), DateStr(12), Undefined} }
YRows ==
    { RemoteRow("Y", store, start, due, finish) :
        store \in Stores,
        start \in {DateStr(3), BadStr},
        due \in {DateStr(15), DateStr(12), EmptyStr},
        finish \in {DateStr(12), DateStr(20), Undefined} }
AggResults ==
    { << x >> : x \in XRows } \cup { << y, x >> : y \in YRows, x \in XRows }

\* The end-date overrides stored when the job was submitted.
AggOverrides ==
    { NoOverrides,
      [NoOverrides EXCEPT !["X"] = DateStr(15)],
      [NoOverrides EXCEPT !["Y"] = DateStr(9)] }

\* Run 1 is complete on the service, its timer is live and one status request is
\* on its way; the optimizer has returned a schedule of the same projects.
InitAgg ==
    /\ host \in Hosts
    /\ routingData = NotFetched
    /\ summaryData = [project |-> << >>, store |-> << >>]
    /\ startDateOverrides = NoOverrides
    /\ endDateOverrides \in AggOverrides
    /\ IdleDrag
    /\ projectTasks = LoadedTasks(host)
    /\ projectFileName = "x.csv"
    /\ pendingReads = << >>
    /\ error = NoError
    /\ isLoading = TRUE
    /\ progress = StatusProgress("running")
    /\ pollingIntervalRef = 1
    /\ timers = {1}
    /\ \E result \in AggResults :
         /\ runs = << [job |-> "complete", endDateOverrides |-> endDateOverrides,
                       result |-> result, inflight |-> 1, stopped |-> FALSE] >>
         /\ optimizationResults = [optimizedTeamDefs |-> TRUE, projectSummary |-> result]
    /\ loadingTimeouts = 0
    /\ summarySource = NoSource
    /\ lastRunState = runStartState
    /\ needsRerun = TRUE
    /\ isOptimizing = FALSE
    /\ optimizer = NoOptimizer
    /\ IdleCsv

NextAgg ==
    \/ \E r \in DOMAIN runs : statusResponse(r)
    \/ loadingTimeout
    \/ applyOptimizedResources

SpecAgg == InitAgg /\ [][NextAgg]_vars

\* ------------------------------------------------------- timeline domain
\* The rows the timeline may be given: none, X alone, or Y and X; each date a
\* day of the month or not a date.
DomainXRows ==
    { RemoteRow("X", "Store-A", start, due, finish) :
        start \in {DateStr(1), BadStr},
        due \in {DateStr(31), EmptyStr},
        finish \in {DateStr(10), Undefined} }
DomainYRows ==
    { RemoteRow("Y", "Store-A", DateStr(3), due, DateStr(20)) : due \in {DateStr(15), BadStr} }
DomainResults ==
    { << >> } \cup { << x >> : x \in DomainXRows }
              \cup { << y, x >> : y \in DomainYRows, x \in DomainXRows }

\* A completed run has filled the summary; the user edits dates in its table.
InitDomain ==
    /\ host \in Hosts
    /\ routingData = NotFetched
    /\ \E result \in DomainResults :
         summaryData = CompletedSummary(host, NoOverrides, result)
    /\ startDateOverrides = NoOverrides
    /\ endDateOverrides = NoOverrides
    /\ IdleDrag
    /\ projectTasks = LoadedTasks(host)
    /\ projectFileName = "x.csv"
    /\ pendingReads = << >>
    /\ error = NoError
    /\ IdleRun
    /\ IdleCsv

NextDomain ==
    /\ UNCHANGED << uploadVars, error, runVars, csvVars >>
    /\ \/ \E i \in DOMAIN summaryData.project, d \in TableDates : handleStartDateChange(i, d)
       \/ \E i \in DOMAIN summaryData.project, d \in TableDates : handleEndDateChange(i, d)

SpecDomain == InitDomain /\ [][NextDomain]_vars

\* ------------------------------------------ CSV text, character by character
\* A string is a sequence of characters.
Quote == "\""
Comma == ","
Space == " "
Newline == "\n"
Letter == "a"

\* String.prototype.trim.
trim(str) ==
    LET keep == {i \in DOMAIN str : str[i] \notin {Space, Newline}}
    IN  IF keep = {} THEN << >> ELSE SubSeq(str, SetMin(keep), SetMax(keep))

\* String.prototype.split(sep) and Array.prototype.join(sep), sep one character.
RECURSIVE split(_, _)
split(str, sep) ==
    LET at == {i \in DOMAIN str : str[i] = sep}
    IN  IF at = {} THEN << str >>
        ELSE << SubSeq(str, 1, SetMin(at) - 1) >>
               \o split(SubSeq(str, SetMin(at) + 1, Len(str)), sep)

RECURSIVE join(_, _)
join(parts, sep) ==
    IF Len(parts) = 0 THEN << >>
    ELSE IF Len(parts) = 1 THEN parts[1]
    ELSE parts[1] \o << sep >> \o join(Tail(parts), sep)

\* replace(/""/g, '"') and replace(/"/g, '""').
RECURSIVE undoubleQuotes(_)
undoubleQuotes(str) ==
    IF Len(str) = 0 THEN << >>
    ELSE IF Len(str) >= 2 /\ str[1] = Quote /\ str[2] = Quote
    THEN << Quote >> \o undoubleQuotes(SubSeq(str, 3, Len(str)))
    ELSE << str[1] >> \o undoubleQuotes(Tail(str))

RECURSIVE doubleQuotes(_)
doubleQuotes(str) ==
    IF Len(str) = 0 THEN << >>
    ELSE IF str[1] = Quote THEN << Quote, Quote >> \o doubleQuotes(Tail(str))
    ELSE << str[1] >> \o doubleQuotes(Tail(str))

\* The inner while of splitCsvRow: from position i inside a quoted field to the
\* position of its closing quote (Len + 1 when there is none).
RECURSIVE closingQuote(_, _)
closingQuote(rowString, i) ==
    IF i > Len(rowString) THEN i
    ELSE IF rowString[i] = Quote
    THEN IF i + 1 <= Len(rowString) /\ rowString[i + 1] = Quote
         THEN closingQuote(rowString, i + 2)
         ELSE i
    ELSE closingQuote(rowString, i + 1)

\* The else branch: from position i to the next comma (Len + 1 when none).
RECURSIVE nextComma(_, _)
nextComma(rowString, i) ==
    IF i <= Len(rowString) /\ rowString[i] # Comma THEN nextComma(rowString, i + 1) ELSE i

\* The outer while of splitCsvRow, from position i with the fields read so far.
RECURSIVE scanFields(_, _, _)
scanFields(rowString, i, fields) ==
    IF i > Len(rowString) THEN fields
    ELSE LET quoted == rowString[i] = Quote
             stop == IF quoted THEN closingQuote(rowString, i + 1) ELSE nextComma(rowString, i)
             field == IF quoted THEN undoubleQuotes(SubSeq(rowString, i + 1, stop - 1))
                      ELSE SubSeq(rowString, i, stop - 1)
             after == IF quoted THEN stop + 1 ELSE stop
             next == IF after <= Len(rowString) /\ rowString[after] = Comma
                     THEN after + 1 ELSE after
         IN  scanFields(rowString, next, Append(fields, field))

splitCsvRow(rowString) ==
    LET fields == scanFields(rowString, 1, << >>)
    IN  IF Len(rowString) > 0 /\ rowString[Len(rowString)] = Comma
        THEN Append(fields, << >>) ELSE fields

\* The lines robustCsvParse works on.
csvLines(text) == split(trim(text), Newline)

\* rowObject: header name -> value, a later column of the same name winning.
rowObject(header, rowValues) ==
    [h \in {header[j] : j \in DOMAIN header} |->
        rowValues[SetMax({j \in DOMAIN header : header[j] = h})]]

\* One pass of the for loop without its first statement: a blank line is split
\* and counted like any other.
parseLineCountingBlank(line, header, i, acc) ==
    LET rowValues == splitCsvRow(line)
    IN  IF Len(rowValues) # Len(header)
        THEN [acc EXCEPT !.errors = Append(@, i)]
        ELSE [acc EXCEPT !.data = Append(@, rowObject(header, rowValues))]

\* One pass of the for loop of robustCsvParse, for line number i.
parseLine(line, header, i, acc) ==
    LET rowValues == splitCsvRow(line)
    IN  IF Len(trim(line)) = 0 THEN acc
        ELSE IF Len(rowValues) # Len(header)
        THEN [acc EXCEPT !.errors = Append(@, i)]
        ELSE [acc EXCEPT !.data = Append(@, rowObject(header, rowValues))]

\* The for loop over lines 2 .. n.
RECURSIVE parseLines(_, _, _)
parseLines(lines, header, n) ==
    IF n < 2 THEN [data |-> << >>, errors |-> << >>]
    ELSE parseLine(lines[n], header, n, parseLines(lines, header, n - 1))

\* robustCsvParse of a text: the row objects and, for each warning, the number
\* of the line it is about (0 for 'CSV has no data rows.').
robustCsvParseText(text) ==
    LET lines == csvLines(text)
        header == [j \in DOMAIN splitCsvRow(lines[1]) |-> trim(splitCsvRow(lines[1])[j])]
    IN  IF Len(lines) < 2 THEN [data |-> << >>, errors |-> << 0 >>]
        ELSE parseLines(lines, header, Len(lines))

\* simpleCsvUnparse of rows of named fields (headers: Object.keys(data[0])).
csvField(value) ==
    IF \E i \in DOMAIN value : value[i] \in {Comma, Quote}
    THEN << Quote >> \o doubleQuotes(value) \o << Quote >>
    ELSE value

simpleCsvUnparse(table) ==
    IF Len(table.rows) = 0 THEN << >>
    ELSE join(<< join(table.headers, Comma) >>
              \o [r \in DOMAIN table.rows |->
                    join([j \in DOMAIN table.headers |->
                            csvField(table.rows[r][table.headers[j]])], Comma)],
              Newline)

\* The texts a file may hold and the tables an export may be given.
CsvChars == {Letter, Comma, Quote, Space, Newline}
CsvTexts == UNION { [1 .. n -> CsvChars] : n \in 0 .. MaxCsvLen }

Widget == << Letter, Comma, Space, Quote, Letter, Quote >>
CsvValues ==
    UNION { [1 .. n -> CsvChars \ {Newline}] : n \in 0 .. MaxFieldLen } \cup {Widget}
NameP == << Letter >>
NameQ == << Letter, Letter >>
CsvTables ==
    { [headers |-> << NameP >>, rows |-> rows, given |-> TRUE] :
        rows \in UNION { [1 .. n -> [{NameP} -> CsvValues]] : n \in 0 .. MaxCsvRows } }
    \cup
    { [headers |-> << NameP, NameQ >>, rows |-> << row >>, given |-> TRUE] :
        row \in [{NameP, NameQ} -> CsvValues] }

\* An export writes the table as text (simpleCsvUnparse).
downloadCsv ==
    /\ csvTable.given
    /\ ~csvText.given
    /\ csvText' = [given |-> TRUE, chars |-> simpleCsvUnparse(csvTable)]
    /\ UNCHANGED << csvTable, csvParsed >>

\* A text is read (robustCsvParse).
loadCsvText ==
    /\ csvText.given
    /\ ~csvParsed.parsed
    /\ csvParsed' = [parsed |-> TRUE,
                     data |-> robustCsvParseText(csvText.chars).data,
                     errors |-> robustCsvParseText(csvText.chars).errors]
    /\ UNCHANGED << csvTable, csvText >>

\* Either a text is given, or a table to be exported and read back.
InitCsv ==
    /\ host \in {h \in Hosts : h.tz = 0}
    /\ routingData = NotFetched
    /\ summaryData = [project |-> << >>, store |-> << >>]
    /\ startDateOverrides = NoOverrides
    /\ endDateOverrides = NoOverrides
    /\ IdleDrag
    /\ projectTasks = << >>
    /\ projectFileName = ""
    /\ pendingReads = << >>
    /\ error = NoError
    /\ IdleRun
    /\ \/ csvTable = NoTable /\ csvText \in { [given |-> TRUE, chars |-> t] : t \in CsvTexts }
       \/ csvTable \in CsvTables /\ csvText = NoText
    /\ csvParsed = NotParsed

NextCsv ==
    /\ UNCHANGED << host, routingData, viewVars, dragVars, uploadVars, error, runVars >>
    /\ \/ downloadCsv
       \/ loadCsvText

SpecCsv == InitCsv /\ [][NextCsv]_vars

\* ------------------------------------------------- handleDownloadProjects
\* String(n) of a number of the task store.
numberText(n) == NumStr(n[1])

\* dataToExport: one row of text fields per task.
exportRow(task) ==
    [Project |-> task.Project, Store |-> task.Store, SKU |-> task.SKU,
     Order |-> numberText(task.Order),
     EstimatedHours |-> numberText(task.EstimatedHours),
     Value |-> numberText(task.Value),
     StartDate |-> formatDate(task.StartDate),
     DueDate |-> formatDate(task.DueDate)]

ExportHeaders ==
    << "Project", "Store", "SKU", "Order", "EstimatedHours", "Value", "StartDate", "DueDate" >>

NoProjectsError == [kind |-> "no-projects"]

\* handleDownloadProjects: the task store is handed to simpleCsvUnparse, or the
\* banner says that there is nothing to download.
handleDownloadProjects ==
    IF Len(projectTasks) = 0
    THEN /\ error' = NoProjectsError
         /\ UNCHANGED csvVars
    ELSE /\ csvTable' = [headers |-> ExportHeaders,
                         rows |-> [i \in DOMAIN projectTasks |-> exportRow(projectTasks[i])],
                         given |-> TRUE]
         /\ csvText' = NoText
         /\ csvParsed' = NotParsed
         /\ UNCHANGED error

\* The timeout of handleDownloadProjects fires while its message is on display.
downloadErrorTimeout ==
    /\ error = NoProjectsError
    /\ error' = NoError
    /\ UNCHANGED csvVars

\* The downloaded text as robustCsvParse reads it: one line per exported row, each
\* with as many fields as the header.
exportedFile ==
    [name |-> "project_tasks.csv",
     lines |-> [r \in DOMAIN csvTable.rows |-> RowLine(csvTable.rows[r])]]

\* The downloaded file is read again (robustCsvParse).
loadExportedFile ==
    /\ csvTable.given
    /\ ~csvParsed.parsed
    /\ csvParsed' = [parsed |-> TRUE,
                     data |-> robustCsvParse(exportedFile).data,
                     errors |-> [k \in 1 .. robustCsvParse(exportedFile).errors |-> 0]]
    /\ UNCHANGED << csvTable, csvText, error >>

\* The rows of the files the task store has been loaded from.
ExportRow(project, store, value, start, due) ==
    [GoodRow(project, store) EXCEPT !.StartDate = start, !.DueDate = due] @@ [Value |-> value]
ExportRows ==
    { ExportRow("Job-001", store, value, DateStr(DayLo), DateStr(due)) :
        store \in {"Store-A", ""}, value \in {Undefined, NumStr(1200)},
        due \in Days }

InitExport ==
    /\ host \in Hosts
    /\ routingData = NotFetched
    /\ summaryData = [project |-> << >>, store |-> << >>]
    /\ startDateOverrides = NoOverrides
    /\ endDateOverrides = NoOverrides
    /\ IdleDrag
    /\ \E x \in ExportRows, more \in {<< >>, << GoodRow("Job-002", "Store-B") >>} :
         projectTasks = loadAndCleanData(host, << x >> \o more).rows
    /\ projectFileName = "x.csv"
    /\ pendingReads = << >>
    /\ error = NoError
    /\ IdleRun
    /\ IdleCsv

NextExport ==
    \/ /\ handleDownloadProjects
       /\ UNCHANGED << host, routingData, viewVars, dragVars, uploadVars, runVars >>
    \/ /\ downloadErrorTimeout
       /\ UNCHANGED << host, routingData, viewVars, dragVars, uploadVars, runVars >>
    \/ /\ loadExportedFile
       /\ UNCHANGED << host, routingData, viewVars, dragVars, uploadVars, runVars >>
    \/ /\ \E name \in builtProjectNames(projectTasks) : handleRemoveProject(name)
       /\ UNCHANGED << runVars, csvVars >>

SpecExport == InitExport /\ [][NextExport]_vars

\* ------------------------------------------ project builder and task store
\* A row of the routing CSV as robustCsvParse returns it.
RoutingRow(template, order, hours) ==
    [TemplateName |-> template, SKU |-> "SKU-1", SKUName |-> "Widget", Operation |-> "Cut",
     Order |-> order, EstimatedHours |-> hours, Value |-> NumStr(5)]

\* The routing CSVs the remote may serve.
RoutingFiles ==
    { << RoutingRow("T", NumStr(1), NumStr(2)) >>,
      << RoutingRow("T", EmptyStr, NumStr(2)) >>,
      << RoutingRow("T", NumStr(1), BadStr), RoutingRow("", NumStr(2), NumStr(2)) >>,
      << >> }

\* The filter of cleanedRoutingData: no required column undefined, null or ''.
\* Order, Estimated Hours and Value are numbers by then, NaN included.
routingRowKept(r) ==
    r.TemplateName # "" /\ r.SKU # "" /\ r.SKUName # "" /\ r.Operation # ""

cleanedRoutingData(rows) ==
    FilterSeq([i \in DOMAIN rows |->
                  [rows[i] EXCEPT !.EstimatedHours = parseNumber(@),
                                  !.Order = parseNumber(@),
                                  !.Value = IF parseNumber(@) = NaN THEN << 0 >>
                                            ELSE parseNumber(@)]],
              routingRowKept)

RoutingDataError == [kind |-> "routing-data"]
BuilderError == [kind |-> "builder-fields"]

\* fetchRemoteData, routing part: the routing CSV arrives.
fetchRemoteData(rows) ==
    /\ ~routingData.fetched
    /\ routingData' = [fetched |-> TRUE, rows |-> cleanedRoutingData(rows)]
    /\ UNCHANGED << host, viewVars, dragVars, uploadVars, error >>

\* fetchRemoteData, routing part: the request fails.
fetchRemoteDataFailed ==
    /\ ~routingData.fetched
    /\ routingData' = [fetched |-> TRUE, rows |-> << >>]
    /\ error' = RoutingDataError
    /\ UNCHANGED << host, viewVars, dragVars, uploadVars >>

\* projectTemplates: the template names of the routing data.
projectTemplates == {routingData.rows[i].TemplateName : i \in DOMAIN routingData.rows}

\* `${template} #${randomNumber}` for the random numbers the model draws.
UniqueNames == [T |-> {"T #1000", "T #1001"}, U |-> {"U #1000"}]

\* A do-while loop that takes the first name drawn, in use or not.
anyNames(template, currentProjectNames) == UniqueNames[template]

\* The names the do-while loop may end with: those not in currentProjectNames.
freeNames(template, currentProjectNames) == UniqueNames[template] \ currentProjectNames

\* The tasks stamped out of one template under the name uniqueName.
tasksForProject(h, template, uniqueName, store, startDate, dueDate) ==
    LET OfTemplate(r) == r.TemplateName = template
        templateTasks == FilterSeq(routingData.rows, OfTemplate)
    IN  [i \in DOMAIN templateTasks |->
            [TemplateName |-> templateTasks[i].TemplateName, SKU |-> templateTasks[i].SKU,
             SKUName |-> templateTasks[i].SKUName, Operation |-> templateTasks[i].Operation,
             Order |-> templateTasks[i].Order,
             EstimatedHours |-> templateTasks[i].EstimatedHours,
             Value |-> templateTasks[i].Value,
             Project |-> uniqueName, Store |-> store,
             StartDate |-> parseDate(h, startDate), DueDate |-> parseDate(h, dueDate)]]

\* The builder's form: templates ticked in some order, the store typed or not, the
\* two date inputs set or cleared.
BuilderStates ==
    [selectedTemplates : {<< >>} \cup {<< t >> : t \in projectTemplates}
                         \cup {pair \in projectTemplates \X projectTemplates :
                                  pair[1] # pair[2]},
     store : {"", "Store-A"},
     startDate : {DateStr(DayLo)},
     dueDate : {DateStr(DayLo + 1), EmptyStr}]

\* The name lists the forEach may generate for a form: one name per ticked template.
BuilderNames(builderState) ==
    LET all == UNION {UniqueNames[t] : t \in DOMAIN UniqueNames}
    IN  [DOMAIN builderState.selectedTemplates -> all]

\* The forEach over the first n ticked templates: each name is drawn until it is
\* not in currentProjectNames (the listed projects and the names drawn before it).
namesDrawn(builderState, uniqueNames, n) ==
    \A k \in 1 .. n :
       uniqueNames[k] \in freeNames(builderState.selectedTemplates[k],
                                    builtProjectNames(projectTasks)
                                       \cup {uniqueNames[j] : j \in 1 .. k - 1})

RECURSIVE newTasks(_, _, _, _)
newTasks(h, builderState, uniqueNames, n) ==
    IF n = 0 THEN << >>
    ELSE newTasks(h, builderState, uniqueNames, n - 1)
            \o tasksForProject(h, builderState.selectedTemplates[n], uniqueNames[n],
                               builderState.store, builderState.startDate,
                               builderState.dueDate)

\* handleAddProjectFromBuilder with the form in builderState; uniqueNames are the
\* names the do-while loops end with.  The button is disabled without routing data.
handleAddProjectFromBuilder(builderState, uniqueNames) ==
    /\ Len(routingData.rows) > 0
    /\ IF \/ Len(builderState.selectedTemplates) = 0 \/ builderState.store = ""
          \/ ~Truthy(builderState.startDate) \/ ~Truthy(builderState.dueDate)
       THEN /\ error' = BuilderError
            /\ UNCHANGED projectTasks
       ELSE LET n == Len(builderState.selectedTemplates)
                added == newTasks(host, builderState, uniqueNames, n)
            IN  /\ namesDrawn(builderState, uniqueNames, n)
                /\ Len(projectTasks) + Len(added) <= MaxBuiltTasks
                /\ projectTasks' = projectTasks \o added
                /\ error' = NoError
    /\ UNCHANGED << host, routingData, viewVars, dragVars, projectFileName, pendingReads >>

\* handleProjectStoreChange: the text typed into a listed project's store field.
handleProjectStoreChange(projectName, newStore) ==
    /\ projectName \in builtProjectNames(projectTasks)
    /\ projectTasks' = [i \in DOMAIN projectTasks |->
                          IF projectTasks[i].Project = projectName
                          THEN [projectTasks[i] EXCEPT !.Store = newStore]
                          ELSE projectTasks[i]]
    /\ UNCHANGED << host, routingData, viewVars, dragVars, projectFileName, pendingReads, error >>

\* The file of this specification: a row of negative hours and a row without a start date.
TaskFiles ==
    { [name |-> "n.csv",
       lines |-> << RowLine([GoodRow("Job-003", "Store-A") EXCEPT !.EstimatedHours = NumStr(-2)]),
                    RowLine([GoodRow("Job-002", "Store-A") EXCEPT !.StartDate = BadStr]) >>] }

StoreTexts == {"", "Store-B"}

InitTasks ==
    /\ host \in Hosts
    /\ routingData = NotFetched
    /\ summaryData = [project |-> << >>, store |-> << >>]
    /\ startDateOverrides = NoOverrides
    /\ endDateOverrides = NoOverrides
    /\ IdleDrag
    /\ projectTasks = << >>
    /\ projectFileName = ""
    /\ pendingReads = << >>
    /\ error = NoError
    /\ IdleRun
    /\ IdleCsv

NextTasks ==
    /\ UNCHANGED << runVars, csvVars >>
    /\ \/ \E rows \in RoutingFiles : fetchRemoteData(rows)
       \/ fetchRemoteDataFailed
       \/ \E f \in TaskFiles : handleFileChange(f)
       \/ \E i \in DOMAIN pendingReads : readerOnload(i)
       \/ \E b \in BuilderStates : \E names \in BuilderNames(b) :
             handleAddProjectFromBuilder(b, names)
       \/ \E name \in builtProjectNames(projectTasks), text \in StoreTexts :
             handleProjectStoreChange(name, text)
       \/ \E name \in builtProjectNames(projectTasks) : handleRemoveProject(name)

SpecTasks == InitTasks /\ [][NextTasks]_vars

\* The routing CSVs of the builder specification: two templates of one row, one
\* template of two rows.
BuilderRoutingFiles ==
    { << RoutingRow("T", NumStr(1), NumStr(2)), RoutingRow("U", NumStr(1), NumStr(2)) >>,
      << RoutingRow("T", NumStr(1), NumStr(2)), RoutingRow("T", NumStr(2), NumStr(2)) >> }

NextBuilder ==
    /\ UNCHANGED << runVars, csvVars >>
    /\ \/ \E rows \in BuilderRoutingFiles : fetchRemoteData(rows)
       \/ \E b \in BuilderStates : \E names \in BuilderNames(b) :
             handleAddProjectFromBuilder(b, names)
       \/ \E name \in builtProjectNames(projectTasks), text \in StoreTexts :
             handleProjectStoreChange(name, text)
       \/ \E name \in builtProjectNames(projectTasks) : handleRemoveProject(name)

SpecBuilder == InitTasks /\ [][NextBuilder]_vars

\* A file that names its project as the builder names one (a file exported earlier),
\* and the routing CSV of one template of one row: every addition to the task
\* store, by upload or by the builder, brings one row per project.
AdditionFiles ==
    { [name |-> "t.csv", lines |-> << RowLine(GoodRow("T #1000", "Store-A")) >>] }
AdditionRoutingFiles == { << RoutingRow("T", NumStr(1), NumStr(2)) >> }

NextAdditions ==
    /\ UNCHANGED << runVars, csvVars >>
    /\ \/ \E rows \in AdditionRoutingFiles : fetchRemoteData(rows)
       \/ \E f \in AdditionFiles : handleFileChange(f)
       \/ \E i \in DOMAIN pendingReads : readerOnload(i)
       \/ \E b \in BuilderStates : \E names \in BuilderNames(b) :
             handleAddProjectFromBuilder(b, names)
       \/ \E name \in builtProjectNames(projectTasks) : handleRemoveProject(name)

SpecAdditions == InitTasks /\ [][NextAdditions]_vars

\* --------------------------------------------------- files with alias columns
\* The alias columns a file may carry next to the canonical ones.
NoColumns == [c \in {} |-> EmptyStr]
NameAliases == {NoColumns, [Game |-> "Job-009"]}
HoursAliases == {NoColumns, "Expected Hours" :> NumStr(3), "Labor Time" :> NumStr(3)}
DateAliases == {NoColumns, "Due Date" :> DateStr(DayLo + 2), "Start Date" :> DateStr(DayLo + 2)}

\* One-row files: the canonical columns filled or left empty, with or without aliases.
AliasRows ==
    { [GoodRow(project, "Store-A") EXCEPT !.EstimatedHours = hours, !.DueDate = due,
                                          !.StartDate = due] @@ game @@ hoursAlias @@ dateAlias :
        project \in {"Job-001", ""}, hours \in {NumStr(2), EmptyStr},
        due \in {DateStr(DayLo + 1), EmptyStr},
        game \in NameAliases, hoursAlias \in HoursAliases, dateAlias \in DateAliases }

AliasFiles == { [name |-> "alias.csv", lines |-> << RowLine(row) >>] : row \in AliasRows }

NextAlias ==
    /\ UNCHANGED << runVars, csvVars >>
    /\ \/ /\ pendingReads = << >>
          /\ projectTasks = << >>
          /\ \E f \in AliasFiles : handleFileChange(f)
       \/ \E i \in DOMAIN pendingReads : readerOnload(i)
       \/ handleClearAllProjects

SpecAlias == InitUpload /\ [][NextAlias]_vars

\* ------------------------------------------------------------------ claims
\* The net dayDelta of the active session: the one handleMouseMove computes for
\* the pointer's present position.
NetDayDelta == dayDelta(currentDomain, pointerX - dragState.startX)

PointerUp == dragState # NoDrag /\ dragState' = NoDrag

\* C1 (as claimed): a drag of any kind whose pointer ends at the x where it
\* started emits no onDateChange and no onEndDateChange on pointer-up and leaves
\* both override maps unchanged, whatever the bar's initial dates.
C1_ZeroDeltaDragEmitsNothing ==
    [][ (PointerUp /\ pointerX = dragState.startX)
            => /\ emitted' = << >>
               /\ startDateOverrides' = startDateOverrides
               /\ endDateOverrides' = endDateOverrides ]_vars

\* C2: in every session started on a bar whose finish is at least one day after
\* its start, the visual finish is strictly later than the visual start at every
\* point; resize-end keeps finish >= start + 1 day, resize-start keeps
\* start <= finish - 1 day, move keeps the initial duration.
ProperBar(ds) ==
    ds.initialFinishDate[1] >= addDays(host, ds.initialStartDate, 1)[1]

C2_ClampInvariant ==
    (dragState # NoDrag /\ ProperBar(dragState)) =>
        /\ dragState.visualFinishDate[1] > dragState.visualStartDate[1]
        /\ dragState.type = "resize-end" =>
              dragState.visualFinishDate[1] >= addDays(host, dragState.visualStartDate, 1)[1]
        /\ dragState.type = "resize-start" =>
              dragState.visualStartDate[1] <= addDays(host, dragState.visualFinishDate, -1)[1]
        /\ dragState.type = "move" =>
              dragState.visualFinishDate[1] - dragState.visualStartDate[1]
                  = dragState.initialFinishDate[1] - dragState.initialStartDate[1]

\* A resize-end session dragged left far enough for the clamp to act.
C2_Witness ==
    /\ dragState # NoDrag
    /\ ProperBar(dragState)
    /\ dragState.type = "resize-end"
    /\ addDays(host, dragState.initialFinishDate, NetDayDelta)[1] < dragState.initialStartDate[1]
    /\ dragState.visualFinishDate = addDays(host, dragState.visualStartDate, 1)

\* C3 (as claimed): pointer-up of a move gesture with net dayDelta d # 0 emits
\* exactly one start change and one end change for the dragged project, carrying
\* the calendar dates initial start + d days and initial finish + d days.
C3_MoveEmitsShiftedDates ==
    [][ (PointerUp /\ dragState.type = "move" /\ NetDayDelta # 0)
            => emitted' =
                 << StartCall(dragState.project,
                        DateStr(LocalDay(host, dragState.initialStartDate[1]) + NetDayDelta)),
                    EndCall(dragState.project,
                        DateStr(LocalDay(host, dragState.initialFinishDate[1]) + NetDayDelta)) >> ]_vars

\* C4 (as claimed): when an uploaded batch is applied, if any Project name of the
\* cleaned batch exists among the tasks loaded at that moment, the task store and
\* the recorded file name are unchanged and the error names every colliding
\* project; otherwise all cleaned rows are appended.
BatchOf(read) == loadAndCleanData(host, robustCsvParse(read.file).data).rows
Colliding(read) ==
    {BatchOf(read)[k].Project : k \in DOMAIN BatchOf(read)} \cap builtProjectNames(projectTasks)

C4_DuplicateBatchRejected ==
    [][ \A i \in DOMAIN pendingReads :
          readerOnload(i) =>
            IF Colliding(pendingReads[i]) # {}
            THEN /\ projectTasks' = projectTasks
                 /\ projectFileName' = projectFileName
                 /\ error'.kind = "duplicate"
                 /\ {error'.names[k] : k \in DOMAIN error'.names} = Colliding(pendingReads[i])
            ELSE projectTasks' = projectTasks \o BatchOf(pendingReads[i]) ]_vars

\* ---- C5
\* C5: for a submitted job at most one status request is in flight at any time.
C5_AtMostOneStatusRequestInFlight ==
    \A r \in DOMAIN runs : runs[r].inflight <= 1

\* ---- C6
\* C6: once a callback of the latest run has stopped polling on a reported error
\* or a failed status request, no later event of that run changes the progress
\* fields or the summary views, and no further status request of it is issued.
C6_StoppedRunStaysFrozen ==
    [][ \A r \in DOMAIN runs :
          (r = Len(runs) /\ runs[r].stopped /\ runs' # runs /\ Len(runs') = Len(runs)
             /\ runs'[r] # runs[r])
          => /\ progress' = progress
             /\ summaryData' = summaryData
             /\ runs'[r].inflight <= runs[r].inflight ]_vars

\* ---- C8
\* The variance a project summary record should carry under the overrides ov:
\* the calendar days from finish to effective due, 0 when either is not a date.
ExpectedVariance(ov, p) ==
    LET due == Or(ov[p.Project], p.DueDate)
    IN  IF due.k = "date" /\ p.FinishDate.k = "date" THEN due.d - p.FinishDate.d ELSE 0

\* C8 as stated: in every state after a completed run, each project record's
\* daysVariance is the one computed with the end-date override stored now.
C8_VarianceFollowsStoredOverride ==
    summarySource.kind = "run" =>
      \A i \in DOMAIN summaryData.project :
        summaryData.project[i].daysVariance
          = ExpectedVariance(endDateOverrides, summaryData.project[i])

\* C8, amended: each project record's daysVariance is the one computed with the
\* end-date overrides stored when the run that produced the record was started;
\* an override edited afterwards leaves the record as it is.
C8_VarianceOfRunStartOverride ==
    summarySource.kind = "run" =>
      \A i \in DOMAIN summaryData.project :
        summaryData.project[i].daysVariance
          = ExpectedVariance(runs[summarySource.run].endDateOverrides, summaryData.project[i])

\* A completed run's record is on display and the override of its project has
\* been edited since that run was started.
C8_Witness ==
    /\ summarySource.kind = "run"
    /\ \E i \in DOMAIN summaryData.project :
         LET p == summaryData.project[i]
         IN  /\ endDateOverrides[p.Project] # runs[summarySource.run].endDateOverrides[p.Project]
             /\ Truthy(endDateOverrides[p.Project])
             /\ p.daysVariance # 0

\* ---- C7
\* C7: every project row of a completed job carries daysVariance = the days from
\* finish to effective due (the override of the project if one is stored, else
\* the row's DueDate), and 0 when either of the two is not a date.
C7_ProjectVariance ==
    summarySource.kind = "run" =>
      LET job == runs[summarySource.run]
      IN  /\ Len(summaryData.project) = Len(job.result)
          /\ \A k \in DOMAIN job.result :
                \E i \in DOMAIN summaryData.project :
                  /\ summaryData.project[i].Project = job.result[k].Project
                  /\ summaryData.project[i].daysVariance
                       = ExpectedVariance(job.endDateOverrides, job.result[k])

\* A completed job, on a host that changes to summer time between the dates, with
\* a row 3 days ahead of its overridden due date and a row without finish date.
C7_Witness ==
    /\ summarySource.kind = "run"
    /\ host.dst
    /\ \E i, j \in DOMAIN summaryData.project :
         /\ summaryData.project[i].daysVariance = 3
         /\ Truthy(endDateOverrides[summaryData.project[i].Project])
         /\ summaryData.project[j].FinishDate = Undefined
         /\ summaryData.project[j].daysVariance = 0

\* ---- C9
\* The rows of the project summary that belong to a store, and the days of their
\* valid dates in one field.
RowsOfStore(store) ==
    { summaryData.project[i] : i \in {k \in DOMAIN summaryData.project :
                                        summaryData.project[k].Store = store} }
DaysOf(values) == { v.d : v \in {w \in values : w.k = "date"} }

\* C9: every store record has StartDate = the earliest StartDate, FinishDate =
\* the latest FinishDate and DueDate = the latest effective due date of the
\* store's project records, and daysVariance = the days from FinishDate to DueDate.
C9_StoreRollup ==
    summarySource.kind = "run" =>
      \A i \in DOMAIN summaryData.store :
        LET s == summaryData.store[i]
            ov == runs[summarySource.run].endDateOverrides
            rows == RowsOfStore(s.Store)
            starts == DaysOf({p.StartDate : p \in rows})
            finishes == DaysOf({p.FinishDate : p \in rows})
            dues == DaysOf({Or(ov[p.Project], p.DueDate) : p \in rows})
        IN  /\ starts # {} /\ finishes # {} /\ dues # {}
            /\ s.StartDate = DateStr(SetMin(starts))
            /\ s.FinishDate = DateStr(SetMax(finishes))
            /\ s.DueDate = DateStr(SetMax(dues))
            /\ s.daysVariance = SetMax(dues) - SetMax(finishes)

\* ---- C10
\* C10: in every state the store summary holds exactly one record for each
\* distinct Store of the project summary and no other record.
C10_OneStoreRecordPerStore ==
    /\ { summaryData.store[i].Store : i \in DOMAIN summaryData.store }
         = { summaryData.project[i].Store : i \in DOMAIN summaryData.project }
    /\ \A i, j \in DOMAIN summaryData.store :
         summaryData.store[i].Store = summaryData.store[j].Store => i = j

\* ---- C11
\* The calendar days of the displayed rows' original start, original due,
\* override-resolved start and override-resolved finish that are valid dates.
DisplayedDays ==
    DaysOf(UNION { { summaryData.project[i].OriginalStartDate,
                     summaryData.project[i].DueDate,
                     Or(startDateOverrides[summaryData.project[i].Project],
                        summaryData.project[i].StartDate),
                     Or(endDateOverrides[summaryData.project[i].Project],
                        summaryData.project[i].FinishDate) }
                   : i \in DOMAIN summaryData.project })

\* C11: the timeline domain runs from local midnight of the day 7 calendar days
\* before the earliest valid displayed date to local midnight of the day 7
\* calendar days after the latest one; without a valid date there is no domain
\* and the chart is not rendered.
C11_TimelineDomain ==
    IF DisplayedDays = {}
    THEN /\ currentDomain.minDate = Null
         /\ currentDomain.maxDate = Null
         /\ ~chartRendered
    ELSE /\ currentDomain.minDate # Null /\ currentDomain.maxDate # Null
         /\ LocalDay(host, currentDomain.minDate[1]) = SetMin(DisplayedDays) - 7
         /\ LocalHour(host, currentDomain.minDate[1]) = 0
         /\ LocalDay(host, currentDomain.maxDate[1]) = SetMax(DisplayedDays) + 7
         /\ LocalHour(host, currentDomain.maxDate[1]) = 0
         /\ chartRendered

\* Rows spanning day 1 to day 31 of the month, one of them with a date that does
\* not parse and one with an override: the domain is day -6 (the 24th of the
\* month before) to day 38 (the 7th of the month after).
C11_Witness ==
    /\ SetMin(DisplayedDays \cup {31}) = 1
    /\ SetMax(DisplayedDays \cup {1}) = 31
    /\ \E i \in DOMAIN summaryData.project :
         /\ summaryData.project[i].FinishDate = Undefined
         /\ Truthy(endDateOverrides[summaryData.project[i].Project])
    /\ LocalDay(host, currentDomain.minDate[1]) = -6
    /\ LocalDay(host, currentDomain.maxDate[1]) = 38

\* ---- C12
\* The data lines of the text that has been read: the lines after the header.
\* Of these, the ones whose split gives as many fields as the header's split,
\* and the ones that are empty or hold white space only.
DataLines == Tail(csvLines(csvText.chars))
HeaderWidth == Len(splitCsvRow(csvLines(csvText.chars)[1]))
WellFormed(line) == Len(splitCsvRow(line)) = HeaderWidth
Blank(line) == \A i \in DOMAIN line : line[i] = Space

\* C12 as stated: reading a text yields one warning and no row for every data
\* line whose split does not give as many fields as the header, and one row for
\* every other data line; rows and warnings together are as many as the data lines.
C12_RowCountInvariant ==
    csvParsed.parsed =>
      /\ Len(csvParsed.errors) = Cardinality({i \in DOMAIN DataLines : ~WellFormed(DataLines[i])})
      /\ Len(csvParsed.data) = Cardinality({i \in DOMAIN DataLines : WellFormed(DataLines[i])})
      /\ Len(csvParsed.data) + Len(csvParsed.errors) = Len(DataLines)

\* C12, amended: a text without a line after its header yields no row and one
\* warning.  Otherwise a blank data line yields nothing, every other data line
\* whose split does not give as many fields as the header yields one warning
\* (naming its line) and no row, and every remaining data line one row, also
\* after a rejected line.
C12_RowCountOfNonBlankLines ==
    csvParsed.parsed =>
      IF Len(DataLines) = 0
      THEN csvParsed.data = << >> /\ csvParsed.errors = << 0 >>
      ELSE LET rejected == {i \in DOMAIN DataLines :
                              ~Blank(DataLines[i]) /\ ~WellFormed(DataLines[i])}
               accepted == {i \in DOMAIN DataLines :
                              ~Blank(DataLines[i]) /\ WellFormed(DataLines[i])}
           IN  /\ {csvParsed.errors[k] : k \in DOMAIN csvParsed.errors} = {i + 1 : i \in rejected}
               /\ Len(csvParsed.errors) = Cardinality(rejected)
               /\ Len(csvParsed.data) = Cardinality(accepted)

\* A text has been read in which a rejected line is followed by a blank line and
\* then by a line that gives a row.
C12_Witness ==
    /\ csvParsed.parsed
    /\ \E i, j, k \in DOMAIN DataLines :
         /\ i < j /\ j < k
         /\ ~Blank(DataLines[i]) /\ ~WellFormed(DataLines[i])
         /\ Blank(DataLines[j])
         /\ ~Blank(DataLines[k]) /\ WellFormed(DataLines[k])
    /\ Len(csvParsed.data) = 1
    /\ Len(csvParsed.errors) = 1

\* ---- C13
\* C13: reading the text written for a table gives the table's rows again, row
\* for row and column for column.
C13_UnparseParseRoundTrip ==
    (csvTable.given /\ csvParsed.parsed) =>
      /\ Len(csvParsed.data) = Len(csvTable.rows)
      /\ \A r \in DOMAIN csvTable.rows : csvParsed.data[r] = csvTable.rows[r]

\* ---- C14
\* The records loadAndCleanData makes of the downloaded file that has been read.
Reloaded == loadAndCleanData(host, csvParsed.data).rows
SameTaskFields(a, b) ==
    \A f \in {"Project", "Store", "SKU", "Order", "EstimatedHours", "Value",
              "StartDate", "DueDate"} : a[f] = b[f]

\* C14: the task store that was exported and the records read back from the
\* exported file agree in Project, Store, SKU, Order, Estimated Hours, Value,
\* StartDate and DueDate.
C14_ExportReloadRoundTrip ==
    (csvParsed.parsed /\ csvTable.rows = [i \in DOMAIN projectTasks |-> exportRow(projectTasks[i])])
      => /\ Len(Reloaded) = Len(projectTasks)
         /\ \A i \in DOMAIN projectTasks : SameTaskFields(Reloaded[i], projectTasks[i])

\* ---- C15
\* The rows robustCsvParse hands to loadAndCleanData for an outstanding read, and
\* those of them that pass the filter after coercion.
ParsedRows(read) == robustCsvParse(read.file).data
Survivors(read) ==
    LET Kept(row) == rowKept(coerceRow(host, row))
    IN  FilterSeq(ParsedRows(read), Kept)

\* C15: when a read completes, loadAndCleanData returns the empty list exactly
\* for an empty input, null exactly for a non-empty input of which no row
\* survives (the banner then shows the blocking message and the task store is
\* left as it is), and otherwise the surviving rows, of which there is one at least.
C15_EmptyNullOrRows ==
    [][ \A i \in DOMAIN pendingReads :
          readerOnload(i) =>
            LET read == pendingReads[i]
                out == loadAndCleanData(host, ParsedRows(read))
            IN  /\ (out = [failed |-> FALSE, rows |-> << >>]) <=> (Len(ParsedRows(read)) = 0)
                /\ out.failed <=> (Len(ParsedRows(read)) > 0 /\ Len(Survivors(read)) = 0)
                /\ (Len(Survivors(read)) > 0) =>
                     /\ ~out.failed
                     /\ Len(out.rows) = Len(Survivors(read))
                     /\ \A k \in DOMAIN out.rows : out.rows[k] = coerceRow(host, Survivors(read)[k])
                /\ out.failed => /\ projectTasks' = projectTasks
                                 /\ projectFileName' = projectFileName
                                 /\ error' = NoValidRowsError ]_vars

\* A read of a file whose only row fails cleaning has completed next to a loaded
\* project: the blocking message is shown and the store holds what it held.
C15_Witness ==
    /\ error = NoValidRowsError
    /\ Len(projectTasks) > 0
    /\ pendingReads = << >>

\* ---- C16
\* A row has every required field and each of its values can be coerced.
Required(row) ==
    /\ row.Project # "" /\ row.SKU # "" /\ row.Store # ""
    /\ row.Order.k = "num" /\ row.EstimatedHours.k = "num"
    /\ row.StartDate.k = "date" /\ row.DueDate.k = "date"

\* C16: of the rows of every file read, loadAndCleanData keeps exactly those with
\* non-empty Project, SKU and Store and with Order, Estimated Hours, StartDate
\* and DueDate that can be coerced, in the order of the input.
C16_DropsRowsMissingRequiredFields ==
    \A i \in DOMAIN pendingReads :
      LET read == pendingReads[i]
          kept == FilterSeq(ParsedRows(read), Required)
      IN  /\ Len(BatchOf(read)) = Len(kept)
          /\ \A k \in DOMAIN kept : BatchOf(read)[k] = coerceRow(host, kept[k])

\* ---- C17
\* The TaskRecord invariant of one task.
TaskRecord(task) ==
    /\ task.Project # "" /\ task.SKU # "" /\ task.Store # ""
    /\ task.Order # NaN
    /\ task.EstimatedHours # NaN /\ task.EstimatedHours[1] >= 0
    /\ task.StartDate # Null /\ task.DueDate # Null

\* C17: every task in the task store has non-empty Project, SKU and Store, an
\* integer Order, a numeric non-negative Estimated Hours and two parsed dates,
\* whether it came from a CSV upload or from the project builder and whatever
\* was typed into a project's store field afterwards.
C17_TaskRecordInvariant ==
    \A i \in DOMAIN projectTasks : TaskRecord(projectTasks[i])

\* ---- C18
\* C18: whenever a status request is answered for a complete job, the result is
\* processed without an error whichever fields its projectSummary rows lack: the
\* banner is left as it was, the summary views are those of the result (none for
\* an absent list), the progress shows the run as done and the timeout that ends
\* the loading state is set.
C18_CompletionNeverFails ==
    [][ \A r \in DOMAIN runs :
          (statusResponse(r) /\ runs[r].job = "complete") =>
             /\ error' = error
             /\ summarySource' = RunSource(r)
             /\ Len(summaryData'.project) = Len(runs[r].result)
             /\ progress' = DoneProgress(JobPct("complete"))
             /\ loadingTimeouts' = loadingTimeouts + 1 ]_vars

\* ---- C19
\* C19: at most one poll timer is live, none is live when no run is in progress
\* (the loading state is over), and the timer of a run is live until that run's
\* job is complete or failed or one of its polls has failed: nothing else clears it.
C19_PollTimerDiscipline ==
    /\ Cardinality(timers) <= 1
    /\ ~isLoading => timers = {}
    /\ \A r \in DOMAIN runs :
          (runs[r].job = "running" /\ ~runs[r].stopped) => r \in timers

C21_MoveChangesOnlyVisualDates ==
    [][ dragState # NoDrag =>
          /\ dragState' # NoDrag =>
                /\ startDateOverrides' = startDateOverrides
                /\ endDateOverrides' = endDateOverrides
                /\ summaryData' = summaryData
                /\ dragState'.type = dragState.type
                /\ dragState'.project = dragState.project
                /\ dragState'.startX = dragState.startX
                /\ dragState'.initialStartDate = dragState.initialStartDate
                /\ dragState'.initialFinishDate = dragState.initialFinishDate
          /\ (startDateOverrides' # startDateOverrides \/ endDateOverrides' # endDateOverrides)
                => (dragState' = NoDrag /\ emitted' # << >>) ]_vars

\* A pointer-move has taken the bar of a move session away from where it started,
\* with the pointer off the session's origin and no override stored yet.
C21_Witness ==
    /\ dragState # NoDrag
    /\ dragState.type = "move"
    /\ pointerX # dragState.startX
    /\ dragState.visualStartDate # dragState.initialStartDate
    /\ startDateOverrides = NoOverrides
    /\ endDateOverrides = NoOverrides

\* ---- C22
\* The record loadAndCleanData makes of one row, when the row survives.
CleanedOf(row) == loadAndCleanData(host, << row >>).rows

\* C22: for every row of a file read, a non-empty canonical column that stands
\* next to a non-empty alias of it keeps its value in the cleaned record:
\* Project next to Game, Estimated Hours next to Expected Hours or Labor Time,
\* DueDate next to Due Date, StartDate next to Start Date.
C22_AliasKeepsCanonicalValue ==
    \A i \in DOMAIN pendingReads :
      \A k \in DOMAIN ParsedRows(pendingReads[i]) :
        LET row == ParsedRows(pendingReads[i])[k]
            Both(canonical, alias) == cellTruthy(row, canonical) /\ cellTruthy(row, alias)
        IN  \A j \in DOMAIN CleanedOf(row) :
              LET cleaned == CleanedOf(row)[j]
              IN  /\ Both("Project", "Game") => cleaned.Project = row.Project
                  /\ (Both("EstimatedHours", "Expected Hours") \/ Both("EstimatedHours", "Labor Time"))
                        => cleaned.EstimatedHours = parseNumber(row.EstimatedHours)
                  /\ Both("DueDate", "Due Date") => cleaned.DueDate = parseDate(host, row.DueDate)
                  /\ Both("StartDate", "Start Date")
                        => cleaned.StartDate = parseDate(host, row.StartDate)

\* ---- C23
\* The tasks of the store under one project name, and the routing rows of a template.
TasksNamed(name) == {i \in DOMAIN projectTasks : projectTasks[i].Project = name}
RowsOfTemplate(template) ==
    {i \in DOMAIN routingData.rows : routingData.rows[i].TemplateName = template}

\* A builder action gives every project it stamps a name that no project of the
\* task store carries and that no other project of the same action gets.
BuilderNamesAreNew ==
    [][ \A b \in BuilderStates : \A names \in BuilderNames(b) :
          (handleAddProjectFromBuilder(b, names) /\ projectTasks' # projectTasks) =>
             /\ \A k \in DOMAIN names : names[k] \notin builtProjectNames(projectTasks)
             /\ \A j, k \in DOMAIN names : j # k => names[j] # names[k]
             /\ builtProjectNames(projectTasks')
                   = builtProjectNames(projectTasks) \cup {names[k] : k \in DOMAIN names} ]_vars

\* Every name in the store belongs to exactly one stamped project: it carries the
\* rows of its template once.
OneProjectPerGeneratedName ==
    \A i \in DOMAIN projectTasks :
       Cardinality(TasksNamed(projectTasks[i].Project))
          = Cardinality(RowsOfTemplate(projectTasks[i].TemplateName))

\* C23: every project stamped out by the project builder gets a name that differs
\* from every project name in the task store and from every other name generated
\* in the same action, and after any sequence of builder actions (and removals)
\* each generated name belongs to exactly one stamped project.
C23_GeneratedNamesAreUnique == BuilderNamesAreNew /\ []OneProjectPerGeneratedName

\* Two projects stamped from the same template stand side by side in the store.
C23_Witness ==
    /\ "T #1000" \in builtProjectNames(projectTasks)
    /\ "T #1001" \in builtProjectNames(projectTasks)

\* ---- C24
\* C24: once a later run has been started, the callback of a status request of an
\* earlier run (answered or failed) changes nothing of the later run: progress,
\* summary views, banner and loading state stay as they are, and the poll timer
\* of every later run stays live.
C24_RunsAreIsolated ==
    [][ \A r \in DOMAIN runs :
          ((statusResponse(r) \/ statusFailed(r)) /\ r < Len(runs)) =>
             /\ progress' = progress
             /\ summaryData' = summaryData
             /\ summarySource' = summarySource
             /\ error' = error
             /\ isLoading' = isLoading
             /\ \A q \in timers : q > r => q \in timers' ]_vars

\* ---- C25
\* C25: under every interleaving of file selections, read completions, builder
\* additions and removals, the rows the task store holds under one Project name
\* come from one accepted addition.  (Every addition of this specification brings
\* one row per project, so a name with two rows has been added twice.)
C25_OneAdditionPerProject ==
    \A i \in DOMAIN projectTasks : Cardinality(TasksNamed(projectTasks[i].Project)) = 1

\* ----------------------------------------------------------------- C26
\* The inputs a run was started with, read back from lastRunState.
RunStartInputs ==
    [startDateOverrides |-> lastRunState.startDateOverrides,
     endDateOverrides |-> lastRunState.endDateOverrides,
     projectTasks |-> lastRunState.projectTasks]

\* C26: once a run has been started, needsRerun is true exactly when a scheduling
\* input differs from its value at the moment that run was started; it is false
\* right after the start and stays false until an input is edited.
C26_NeedsRerunIffInputsChanged ==
    lastRunState # NoRunState => (needsRerun <=> effectState # RunStartInputs)

\* ----------------------------------------------------------------- C27
\* The file the task store of the scheduling specification was loaded from.
ReloadFile == [name |-> "x.csv", lines |-> << RowLine(GoodRow("X", "Store-A")) >>]

\* The dates typed into the summary table in this specification.
RemoveDates == {DateStr(DayLo)}

\* Runs, edits of the summary table's dates, removal of projects and a reload.
NextRemove ==
    \/ runSchedulingEngine
    \/ \E r \in DOMAIN runs, result \in DragResults : startAccepted(r, result)
    \/ \E r \in DOMAIN runs : jobAdvance(r, "complete")
    \/ \E r \in DOMAIN runs : pollTick(r)
    \/ \E r \in DOMAIN runs : statusResponse(r)
    \/ loadingTimeout
    \/ /\ \/ \E i \in DOMAIN summaryData.project, d \in RemoveDates : handleStartDateChange(i, d)
          \/ \E i \in DOMAIN summaryData.project, d \in RemoveDates : handleEndDateChange(i, d)
       /\ UNCHANGED << uploadVars, error, isLoading, progress, pollingIntervalRef, timers, runs,
                       loadingTimeouts, summarySource, optimizationResults, lastRunState,
                       optimizerVars, csvVars >>
       /\ needsRerun' = needsRerunEffect(needsRerun, TRUE)
    \/ /\ \/ \E name \in builtProjectNames(projectTasks) : handleRemoveProject(name)
          \/ handleClearAllProjects
          \/ handleFileChange(ReloadFile)
          \/ \E i \in DOMAIN pendingReads : readerOnload(i)
       /\ UNCHANGED << isLoading, progress, pollingIntervalRef, timers, runs,
                       loadingTimeouts, summarySource, optimizationResults, lastRunState,
                       optimizerVars, csvVars >>
       /\ needsRerun' = needsRerunEffect(needsRerun, projectTasks' # projectTasks)

SpecRemove == InitRun /\ [][NextRemove]_vars

HasOverride(overrides, project) == overrides[project] # Undefined

\* C27: a step that removes a project from the task store (handleRemoveProject,
\* handleClearAllProjects) leaves no start or end override for it, and the
\* overrides a job is submitted with name only projects of the task store.
C27_RemovalDropsOverrides ==
    [][ /\ \A p \in Projects :
             (p \in builtProjectNames(projectTasks) /\ p \notin builtProjectNames(projectTasks'))
                => ~HasOverride(startDateOverrides', p) /\ ~HasOverride(endDateOverrides', p)
        /\ Len(runs') > Len(runs) =>
             \A p \in Projects :
                HasOverride(startDateOverrides', p) \/ HasOverride(runs'[Len(runs')].endDateOverrides, p)
                   => p \in builtProjectNames(projectTasks') ]_vars

\* ----------------------------------------------------------------- C28
\* C28: when the timeline is rendered and no drag is in progress, every date drawn
\* for a displayed project (plan start, plan due, actual start, actual finish)
\* lies within [minDate, maxDate], whatever the overrides.
C28_DrawnDatesInDomain ==
    (chartRendered /\ dragState = NoDrag) =>
        \A i \in DOMAIN summaryData.project :
            \A d \in drawnDates(host, summaryData.project[i], startDateOverrides, endDateOverrides) :
                /\ currentDomain.minDate[1] <= d[1]
                /\ d[1] <= currentDomain.maxDate[1]

\* ------------------------------------------------------ runResourceOptimizer
OptimizerStartError == [kind |-> "optimizer-start"]
OptimizerError == [kind |-> "optimizer"]
PartialSolutionError == [kind |-> "partial"]

\* What a finished optimization may report.
OptimizerResults ==
    { [optimizedTeamDefs |-> TRUE, projectSummary |-> rows] : rows \in DragResults }

\* The Run Optimizer button: disabled while isOptimizing or with no task loaded;
\* while isLoading the progress overlay lies over the page.  (The model keeps one
\* optimizer job: the button is pressed again once the status requests of the
\* previous job have been answered.)
runResourceOptimizer ==
    /\ ~isOptimizing
    /\ Len(projectTasks) > 0
    /\ ~isLoading
    /\ optimizer.inflight = 0
    /\ isOptimizing' = TRUE
    /\ optimizationResults' = NoOptimization
    /\ error' = NoError
    /\ optimizer' = [job |-> "submitting", timer |-> FALSE, inflight |-> 0]
    /\ UNCHANGED << host, routingData, viewVars, dragVars, csvVars, uploadVars, isLoading, progress,
                    pollingIntervalRef, timers, runs, loadingTimeouts, summarySource,
                    rerunVars >>

\* The POST is answered 202: the optimizer's own poll timer is created.
optimizerAccepted ==
    /\ optimizer.job = "submitting"
    /\ optimizer' = [optimizer EXCEPT !.job = "running", !.timer = TRUE]
    /\ UNCHANGED << host, routingData, viewVars, dragVars, csvVars, uploadVars, error, isLoading,
                    progress, pollingIntervalRef, timers, runs, loadingTimeouts, summarySource,
                    optimizationResults, rerunVars, isOptimizing >>

\* The POST fails or is answered with another status: the outer catch.
optimizerRejected ==
    /\ optimizer.job = "submitting"
    /\ optimizer' = [optimizer EXCEPT !.job = "rejected"]
    /\ error' = OptimizerStartError
    /\ isOptimizing' = FALSE
    /\ UNCHANGED << host, routingData, viewVars, dragVars, csvVars, uploadVars, isLoading,
                    progress, pollingIntervalRef, timers, runs, loadingTimeouts, summarySource,
                    optimizationResults, rerunVars >>

\* The service finishes the optimizer's job.
optimizerAdvance(to) ==
    /\ optimizer.job = "running"
    /\ optimizer' = [optimizer EXCEPT !.job = to]
    /\ UNCHANGED << host, routingData, viewVars, dragVars, csvVars, uploadVars, error, isLoading,
                    progress, pollingIntervalRef, timers, runs, loadingTimeouts, summarySource,
                    optimizationResults, rerunVars, isOptimizing >>

\* The 2000 ms timer fires: the callback sends a status request.
optimizerTick ==
    /\ optimizer.timer
    /\ optimizer.inflight < MaxInFlight
    /\ optimizer' = [optimizer EXCEPT !.inflight = @ + 1]
    /\ UNCHANGED << host, routingData, viewVars, dragVars, csvVars, uploadVars, error, isLoading,
                    progress, pollingIntervalRef, timers, runs, loadingTimeouts, summarySource,
                    optimizationResults, rerunVars, isOptimizing >>

\* A status request of the optimizer fails: the callback's catch.
optimizerStatusFailed ==
    /\ optimizer.inflight > 0
    /\ optimizer' = [optimizer EXCEPT !.inflight = @ - 1, !.timer = FALSE]
    /\ error' = OptimizerError
    /\ isOptimizing' = FALSE
    /\ UNCHANGED << host, routingData, viewVars, dragVars, csvVars, uploadVars, isLoading,
                    progress, pollingIntervalRef, timers, runs, loadingTimeouts, summarySource,
                    optimizationResults, rerunVars >>

\* A status request of the optimizer is answered with the job's status.
optimizerResponse(results, success) ==
    LET job == optimizer.job
    IN  /\ optimizer.inflight > 0
        /\ job \in {"running", "complete", "error"}
        /\ optimizer' = [optimizer EXCEPT !.inflight = @ - 1,
                                          !.timer = @ /\ job = "running"]
        /\ CASE job = "running" ->
                  UNCHANGED << optimizationResults, error, isOptimizing >>
             [] job = "complete" ->
                  /\ optimizationResults' = results
                  /\ error' = IF success THEN error ELSE PartialSolutionError
                  /\ isOptimizing' = FALSE
             [] job = "error" ->
                  /\ error' = OptimizerError
                  /\ isOptimizing' = FALSE
                  /\ UNCHANGED optimizationResults
        /\ UNCHANGED << host, routingData, viewVars, dragVars, csvVars, uploadVars, isLoading,
                        progress, pollingIntervalRef, timers, runs, loadingTimeouts,
                        summarySource, rerunVars >>

\* Scheduling runs and optimizer runs over one loaded project.
NextOptimize ==
    \/ runSchedulingEngine
    \/ \E r \in DOMAIN runs, result \in DragResults : startAccepted(r, result)
    \/ \E r \in DOMAIN runs : startFailed(r)
    \/ \E r \in DOMAIN runs, to \in {"complete", "error"} : jobAdvance(r, to)
    \/ \E r \in DOMAIN runs : pollTick(r)
    \/ \E r \in DOMAIN runs : statusResponse(r)
    \/ loadingTimeout
    \/ runResourceOptimizer
    \/ optimizerAccepted
    \/ optimizerRejected
    \/ \E to \in {"complete", "error"} : optimizerAdvance(to)
    \/ optimizerTick
    \/ optimizerStatusFailed
    \/ \E results \in OptimizerResults, success \in BOOLEAN : optimizerResponse(results, success)
    \/ applyOptimizedResources

SpecOptimize == InitRun /\ [][NextOptimize]_vars

\* ----------------------------------------------------------------- C29
\* C29: a scheduling run and a resource-optimization run are never in progress
\* at the same time.
C29_OneRemoteJobAtATime == ~(isLoading /\ isOptimizing)

\* ----------------------------------------------------------------- C30
\* Runs started one after the other, each answered by the service; no edits.
InitLive ==
    /\ InitRun
    /\ host = [tz |-> 0, dst |-> FALSE]

runStarted == runSchedulingEngineUpTo(MaxLiveRuns)
startReturns(r) == (\E result \in DragResults : startAccepted(r, result)) \/ startFailed(r)
jobReports(r) == \E to \in {"complete", "error"} : jobAdvance(r, to)
statusReturns(r) == statusFailed(r) \/ statusResponse(r)

NextLive ==
    \/ runStarted
    \/ \E r \in DOMAIN runs : startReturns(r)
    \/ \E r \in DOMAIN runs : jobReports(r)
    \/ \E r \in DOMAIN runs : pollTick(r)
    \/ \E r \in DOMAIN runs : statusReturns(r)
    \/ loadingTimeout

\* Every request returns or fails, every job reports complete or error, a live
\* timer fires and a pending timeout runs.  Nothing obliges the user to click.
FairLive ==
    /\ \A r \in 1 .. MaxLiveRuns :
          /\ WF_vars(r \in DOMAIN runs /\ startReturns(r))
          /\ WF_vars(r \in DOMAIN runs /\ jobReports(r))
          /\ WF_vars(r \in DOMAIN runs /\ pollTick(r))
          /\ WF_vars(r \in DOMAIN runs /\ statusReturns(r))
    /\ WF_vars(loadingTimeout)

SpecLive == InitLive /\ [][NextLive]_vars /\ FairLive

\* Run r is over: its POST has returned, its timer is not live, none of its
\* status requests is on its way and the overlay is gone.
runOver(r) ==
    /\ r \in DOMAIN runs
    /\ runs[r].job # "submitting"
    /\ r \notin timers
    /\ ~isLoading

\* C30: every run that is started terminates: eventually its poll timer is
\* cleared and stays cleared (no further status request is issued for it) and
\* isLoading is false.
C30_EveryRunTerminates ==
    \A r \in 1 .. MaxLiveRuns :
        /\ (r \in DOMAIN runs) ~> runOver(r)
        /\ (r \in DOMAIN runs) ~> [](r \notin timers)

====
